---- MODULE Spec2Model ----
(***************************************************************************)
(* A model of the shared-memory computation kernel of                      *)
(* showcases/wasm-polyglot-bridge/rust-wasm: the sorting routines          *)
(* (sorting.rs), the allocator entry points and the matrix routines        *)
(* (lib.rs) and the box blur (image.rs).                                   *)
(*                                                                         *)
(* Arrays are functions over 0..len-1, so that every index of the model is *)
(* the index of the source.  An f32 is modelled by an integer: the sorting *)
(* routines only compare their elements, and the matrix routines are       *)
(* exercised on small integers, on which f32 arithmetic is exact.          *)
(* Every array element carries a ghost tag, its index in the input, which  *)
(* no routine reads: it makes stability and permutation checkable.         *)
(***************************************************************************)
EXTENDS Integers, Sequences, FiniteSets, TLC

VARIABLES
    ty,       \* element type of the view handed to a sort: "f32" or "i32"
    input,    \* the array as the host wrote it, before the call
    arr,      \* the array in shared memory
    pc,       \* "ready" | "done" | "panic"
    algo,     \* the sort entry point that ran, "none" before the call
    build,    \* "debug" (overflow checks on) | "release" (wrapping arithmetic)
    karg,     \* the k argument of partial_sort_smallest_k, -1 when not used
    exps,     \* radixsort_i32: the values of exp of the passes that ran
    depth,    \* deepest nesting of the recursive helper during the call
    trace,    \* partial_sort_smallest_k: the array after each step of the scan
    dims,     \* matrix_multiply: [m, n, p]
    ma,       \* the m x n matrix A, row-major
    mb,       \* the n x p matrix B, row-major
    mc,       \* the m x p destination C, row-major
    mpc,      \* "ready" | "done" | "idle"
    order,    \* matrix_transpose_square: the n argument
    matrix,   \* the n x n matrix it works on in place, row-major
    given,    \* that matrix as the host wrote it
    transposed, \* that matrix after the first call
    swaps,    \* the index pairs the latest call exchanged, in order
    tpc,      \* "ready" | "once" | "twice" | "idle"
    live,     \* the blocks the memory manager has handed out: [ptr, size]
    held,     \* the (ptr, size) pairs allocate returned and the host still holds
    last,     \* the last allocator call and the blocks outstanding before it
    arenaState, \* "ok" | "abort" (allocation failure) | "corrupt" | "idle"
    width,    \* image width in pixels
    height,   \* image height in pixels
    radius,   \* box_blur: the radius argument
    src,      \* the source RGBA buffer, width * height * 4 bytes
    dst,      \* the destination RGBA buffer
    ipc,      \* "ready" | "done" | "panic" | "idle"
    pixels,   \* the RGBA buffer a per-pixel transform works on in place
    original, \* that buffer as the host wrote it
    once,     \* that buffer after the first call
    op,       \* the per-pixel transform called, "none" before the first call
    param,    \* its threshold, amount or factor argument, 0 when it has none
    applied,  \* number of calls of the transform so far
    written,  \* the indices the calls stored to
    pwidth,   \* the width argument of the transform
    pheight,  \* the height argument of the transform
    ppc,      \* "ready" | "done" | "panic" | "idle"
    data,     \* the f32 array handed to a statistic or a search
    target,   \* binary_search_f32: the target argument
    stat,     \* the entry point called on data, "none" before the call
    ret,      \* its return value
    reads,    \* the indices of data the call loaded
    stores,   \* the indices of data the call stored to
    spc,      \* "ready" | "done" | "idle"
    json,     \* the text handed to is_valid_json
    valid,    \* its return value
    jpc       \* "ready" | "done" | "idle"

sortVars == <<ty, input, arr, pc, algo, build, karg, exps, depth, trace>>
matVars == <<dims, ma, mb, mc, mpc, order, matrix, given, transposed, swaps,
             tpc>>
arenaVars == <<live, held, last, arenaState>>
imgVars == <<width, height, radius, src, dst, ipc>>
pixVars == <<pixels, original, once, op, param, applied, written, pwidth,
             pheight, ppc>>
statVars == <<data, target, stat, ret, reads, stores, spc>>
jsonVars == <<json, valid, jpc>>

(***************************************************************************)
(* Bounds of the model.                                                    *)
(***************************************************************************)
MaxLen == 4     \* longest f32 array handed to a sort
MaxLenI32 == 3  \* longest i32 array handed to radixsort_i32
MaxKey == 2     \* f32 keys are 0..MaxKey
MaxCells == 4   \* largest number of elements of a matrix
HeapSize == 4   \* bytes the memory manager can hand out
MaxAlloc == 2   \* largest size passed to allocate and deallocate
MaxSide == 2    \* largest image width and height
MaxRadius == 2  \* largest radius tried on every image
MaxSobelSide == 3 \* largest width and height handed to sobel_edge_detect
MaxLit == 2     \* most pixels of its source whose red byte is not 0
MaxText == 4    \* longest text handed to is_valid_json, in characters
MaxPixels == 2  \* most pixels of an image handed to a per-pixel transform
MaxStatLen == 3 \* longest array of any order handed to a statistic or a search
MaxSearchLen == 5 \* longest non-decreasing array handed to them
MaxOrder == 3   \* largest n handed to matrix_transpose_square
MaxMarked == 2  \* most elements of its matrix that are not 0

I32Max == 2147483647

\* The i32 values the host writes: one and two decimal digits of either sign,
\* and ten decimal digits below and above 10^10 mod 2^32 = 1410065408.
I32Values == {-21, -2, -1, 0, 3, 21, 1000000000, 1500000000, I32Max}
F32Values == 0..MaxKey

Min(a, b) == IF a < b THEN a ELSE b
Max(a, b) == IF a > b THEN a ELSE b

LenOf(a) == Cardinality(DOMAIN a)

Elem(v, i) == [key |-> v, tag |-> i]

\* Every array of length n over the values vs, each element tagged with its index.
ArraysOf(vs, n) == { [i \in 0..(n - 1) |-> Elem(f[i], i)] : f \in [0..(n - 1) -> vs] }

Arrays(vs, maxlen) == UNION { ArraysOf(vs, n) : n \in 0..maxlen }

Swap(a, i, j) == [a EXCEPT ![i] = a[j], ![j] = a[i]]

(***************************************************************************)
(* Quick sort (sorting.rs 13-41).                                          *)
(***************************************************************************)
RECURSIVE PartitionLoop(_, _, _, _, _)
PartitionLoop(a, i, j, high, pivot) ==
    IF j >= high THEN [arr |-> a, i |-> i]
    ELSE IF a[j].key <= pivot.key
         THEN PartitionLoop(Swap(a, i, j), i + 1, j + 1, high, pivot)
         ELSE PartitionLoop(a, i, j + 1, high, pivot)

\* partition without its last swap: the pivot is left at the end of the range.
partition_NoPivotSwap(a, low, high) ==
    LET r == PartitionLoop(a, low, low, high, a[high])
    IN  [arr |-> r.arr, pivot |-> r.i]

partition(a, low, high) ==
    LET r == PartitionLoop(a, low, low, high, a[high])
    IN  [arr |-> Swap(r.arr, r.i, high), pivot |-> r.i]

\* Returns the array and the deepest nesting of active calls below and
\* including this one.
RECURSIVE quicksort_recursive(_, _, _)
quicksort_recursive(a, low, high) ==
    IF low < high
    THEN LET p == partition(a, low, high)
             l == IF p.pivot > 0
                  THEN quicksort_recursive(p.arr, low, p.pivot - 1)
                  ELSE [arr |-> p.arr, depth |-> 0]
             r == quicksort_recursive(l.arr, p.pivot + 1, high)
         IN  [arr |-> r.arr, depth |-> 1 + Max(l.depth, r.depth)]
    ELSE [arr |-> a, depth |-> 1]

\* slice.len().saturating_sub(1)
SaturatingSub1(n) == IF n = 0 THEN 0 ELSE n - 1

quicksort_f32(a) == quicksort_recursive(a, 0, SaturatingSub1(LenOf(a)))

(***************************************************************************)
(* Merge sort (sorting.rs 49-95).  temp is the auxiliary buffer.           *)
(***************************************************************************)
\* The first loop of merge taking the right element on a tie (< for <=).
RECURSIVE MergeBoth_Strict(_, _, _, _, _, _, _)
MergeBoth_Strict(a, temp, i, j, k, mid, right) ==
    IF i < mid /\ j < right
    THEN IF a[i].key < a[j].key
         THEN MergeBoth_Strict(a, [temp EXCEPT ![k] = a[i]], i + 1, j, k + 1, mid, right)
         ELSE MergeBoth_Strict(a, [temp EXCEPT ![k] = a[j]], i, j + 1, k + 1, mid, right)
    ELSE [temp |-> temp, i |-> i, j |-> j, k |-> k]

\* The first loop of merge: while i < mid && j < right.
RECURSIVE MergeBoth(_, _, _, _, _, _, _)
MergeBoth(a, temp, i, j, k, mid, right) ==
    IF i < mid /\ j < right
    THEN IF a[i].key <= a[j].key
         THEN MergeBoth(a, [temp EXCEPT ![k] = a[i]], i + 1, j, k + 1, mid, right)
         ELSE MergeBoth(a, [temp EXCEPT ![k] = a[j]], i, j + 1, k + 1, mid, right)
    ELSE [temp |-> temp, i |-> i, j |-> j, k |-> k]

\* The two draining loops: while i < mid, while j < right.
RECURSIVE MergeDrain(_, _, _, _, _)
MergeDrain(a, temp, i, k, bound) ==
    IF i < bound
    THEN MergeDrain(a, [temp EXCEPT ![k] = a[i]], i + 1, k + 1, bound)
    ELSE [temp |-> temp, k |-> k]

\* arr[left..right].copy_from_slice(&temp[left..right])
CopyRange(a, temp, left, right) ==
    [x \in DOMAIN a |-> IF left <= x /\ x < right THEN temp[x] ELSE a[x]]

\* merge without the loop that drains the right run.
merge_NoRightDrain(a, temp, left, mid, right) ==
    LET b  == MergeBoth(a, temp, left, mid, left, mid, right)
        d1 == MergeDrain(a, b.temp, b.i, b.k, mid)
    IN  [arr |-> CopyRange(a, d1.temp, left, right), temp |-> d1.temp]

merge(a, temp, left, mid, right) ==
    LET b  == MergeBoth(a, temp, left, mid, left, mid, right)
        d1 == MergeDrain(a, b.temp, b.i, b.k, mid)
        d2 == MergeDrain(a, d1.temp, b.j, d1.k, right)
    IN  [arr |-> CopyRange(a, d2.temp, left, right), temp |-> d2.temp]

RECURSIVE mergesort_recursive_SplitOne(_, _, _, _)
mergesort_recursive_SplitOne(a, temp, left, right) ==
    IF right - left <= 1
    THEN [arr |-> a, temp |-> temp, depth |-> 1]
    ELSE LET mid == left + 1
             l   == mergesort_recursive_SplitOne(a, temp, left, mid)
             r   == mergesort_recursive_SplitOne(l.arr, l.temp, mid, right)
             m   == merge(r.arr, r.temp, left, mid, right)
         IN  [arr |-> m.arr, temp |-> m.temp, depth |-> 1 + Max(l.depth, r.depth)]

RECURSIVE mergesort_recursive(_, _, _, _)
mergesort_recursive(a, temp, left, right) ==
    IF right - left <= 1
    THEN [arr |-> a, temp |-> temp, depth |-> 1]
    ELSE LET mid == left + ((right - left) \div 2)
             l   == mergesort_recursive(a, temp, left, mid)
             r   == mergesort_recursive(l.arr, l.temp, mid, right)
             m   == merge(r.arr, r.temp, left, mid, right)
         IN  [arr |-> m.arr, temp |-> m.temp, depth |-> 1 + Max(l.depth, r.depth)]

\* vec![0.0; len]
ZeroVec(n) == [x \in 0..(n - 1) |-> Elem(0, -1)]

mergesort_f32(a) == mergesort_recursive(a, ZeroVec(LenOf(a)), 0, LenOf(a))

(***************************************************************************)
(* Heap sort (sorting.rs 103-135).                                         *)
(***************************************************************************)
RECURSIVE heapify(_, _, _)
heapify(a, n, i) ==
    LET left     == 2 * i + 1
        right    == 2 * i + 2
        largest1 == IF left < n /\ a[left].key > a[i].key THEN left ELSE i
        largest  == IF right < n /\ a[right].key > a[largest1].key THEN right ELSE largest1
    IN  IF largest # i
        THEN LET r == heapify(Swap(a, i, largest), n, largest)
             IN  [arr |-> r.arr, depth |-> 1 + r.depth]
        ELSE [arr |-> a, depth |-> 1]

\* for i in (0..len / 2).rev() { heapify(slice, len, i) }
RECURSIVE BuildHeap(_, _, _)
BuildHeap(a, n, i) ==
    IF i < 0 THEN [arr |-> a, depth |-> 0]
    ELSE LET h == heapify(a, n, i)
             r == BuildHeap(h.arr, n, i - 1)
         IN  [arr |-> r.arr, depth |-> Max(h.depth, r.depth)]

\* for i in (1..len).rev() { slice.swap(0, i); heapify(slice, i, 0) }
RECURSIVE ExtractMax(_, _)
ExtractMax(a, i) ==
    IF i < 1 THEN [arr |-> a, depth |-> 0]
    ELSE LET h == heapify(Swap(a, 0, i), i, 0)
             r == ExtractMax(h.arr, i - 1)
         IN  [arr |-> r.arr, depth |-> Max(h.depth, r.depth)]

heapsort_f32(a) ==
    LET n == LenOf(a)
        b == BuildHeap(a, n, (n \div 2) - 1)
        e == ExtractMax(b.arr, n - 1)
    IN  [arr |-> e.arr, depth |-> Max(b.depth, e.depth)]

(***************************************************************************)
(* i32 arithmetic.  An i32 is an integer of -2^31 .. 2^31-1; the wrapping  *)
(* operations are computed without leaving that range.                     *)
(***************************************************************************)
I32Min == -I32Max - 1

Abs(x) == IF x < 0 THEN -x ELSE x

\* a + b modulo 2^32, as a two's-complement i32.
WrappingAdd(a, b) ==
    IF a > 0 /\ b > 0 /\ a > I32Max - b
    THEN ((a - I32Max) - 1) + ((b - I32Max) - 1)
    ELSE IF a < 0 /\ b < 0 /\ a < I32Min - b
         THEN ((a + I32Max) + 1) + ((b + I32Max) + 1)
         ELSE a + b

\* x * 10 modulo 2^32: 10x = 8x + 2x.
WrappingMul10(x) ==
    LET x2 == WrappingAdd(x, x)
        x4 == WrappingAdd(x2, x2)
        x8 == WrappingAdd(x4, x4)
    IN  WrappingAdd(x8, x2)

\* x * 10 does not fit an i32.
Mul10Overflows(x) == x > I32Max \div 10 \/ x < -(I32Max \div 10)

\* Rust's / and % on integers truncate towards zero.
TruncDiv(a, b) ==
    IF (a >= 0) = (b > 0) THEN Abs(a) \div Abs(b) ELSE -(Abs(a) \div Abs(b))

TruncRem(a, b) == a - b * TruncDiv(a, b)

(***************************************************************************)
(* Radix sort (sorting.rs 143-184).                                        *)
(***************************************************************************)
\* ((num / exp) % 10).abs() as usize
Digit(num, exp) == Abs(TruncRem(TruncDiv(num, exp), 10))

\* for i in 1..10 { count[i] += count[i - 1] }
RECURSIVE Cumulate(_, _)
Cumulate(count, i) ==
    IF i >= 10 THEN count
    ELSE Cumulate([count EXCEPT ![i] = count[i] + count[i - 1]], i + 1)

\* for &num in arr.iter().rev() { count[digit] -= 1; output[count[digit]] = num }
RECURSIVE BuildOutput(_, _, _, _, _)
BuildOutput(a, output, count, exp, idx) ==
    IF idx < 0 THEN output
    ELSE LET digit == Digit(a[idx].key, exp)
             c     == count[digit] - 1
         IN  BuildOutput(a, [output EXCEPT ![c] = a[idx]],
                         [count EXCEPT ![digit] = c], exp, idx - 1)

\* for &num in arr.iter() { count[digit] += 1 }
RECURSIVE CountDigits(_, _, _, _)
CountDigits(a, count, exp, idx) ==
    IF idx >= LenOf(a) THEN count
    ELSE LET digit == Digit(a[idx].key, exp)
         IN  CountDigits(a, [count EXCEPT ![digit] = count[digit] + 1], exp, idx + 1)

\* arr.copy_from_slice(output) leaves the array and the buffer equal.
counting_sort_by_digit(a, output, exp) ==
    LET count == CountDigits(a, [d \in 0..9 |-> 0], exp, 0)
        out   == BuildOutput(a, output, Cumulate(count, 1), exp, LenOf(a) - 1)
    IN  [arr |-> out, output |-> out]

\* slice.iter().map(|&x| x.abs()).max().unwrap_or(0)
RECURSIVE MaxAbs(_, _, _)
MaxAbs(a, idx, m) ==
    IF idx >= LenOf(a) THEN m ELSE MaxAbs(a, idx + 1, Max(m, Abs(a[idx].key)))

\* while max_val / exp > 0 { counting_sort_by_digit(..); exp *= 10 }
\* With overflow checks (the debug profile) exp *= 10 panics when it does not
\* fit an i32; without them (the release profile) it wraps.
RECURSIVE RadixLoop(_, _, _, _, _, _)
RadixLoop(a, output, max_val, exp, done, bld) ==
    IF exp = 0 THEN [arr |-> a, exps |-> done, panicked |-> TRUE]
    ELSE IF TruncDiv(max_val, exp) > 0
    THEN LET c == counting_sort_by_digit(a, output, exp)
         IN  IF Mul10Overflows(exp) /\ bld = "debug"
             THEN [arr |-> c.arr, exps |-> Append(done, exp), panicked |-> TRUE]
             ELSE RadixLoop(c.arr, c.output, max_val, WrappingMul10(exp),
                            Append(done, exp), bld)
    ELSE [arr |-> a, exps |-> done, panicked |-> FALSE]

radixsort_i32_OnePass(a, bld) ==
    IF LenOf(a) = 0
    THEN [arr |-> a, exps |-> <<>>, panicked |-> FALSE]
    ELSE [arr |-> counting_sort_by_digit(a, ZeroVec(LenOf(a)), 1).arr,
          exps |-> <<1>>, panicked |-> FALSE]

radixsort_i32(a, bld) ==
    IF LenOf(a) = 0
    THEN [arr |-> a, exps |-> <<>>, panicked |-> FALSE]
    ELSE RadixLoop(a, ZeroVec(LenOf(a)), MaxAbs(a, 0, 0), 1, <<>>, bld)

(***************************************************************************)
(* Partial sort (sorting.rs 192-211).                                      *)
(***************************************************************************)
\* while j > 0 && slice[j - 1] > val { slice[j] = slice[j - 1]; j -= 1 }
\* slice[j] = val
RECURSIVE ShiftInsert(_, _, _)
ShiftInsert(a, j, val) ==
    IF j > 0 /\ a[j - 1].key > val.key
    THEN ShiftInsert([a EXCEPT ![j] = a[j - 1]], j - 1, val)
    ELSE [a EXCEPT ![j] = val]

\* slice[..k].sort_by(partial_cmp): the standard library's stable sort, an
\* insertion sort on a slice this short.
RECURSIVE SortPrefix(_, _, _)
SortPrefix(a, k, i) ==
    IF i >= k THEN a ELSE SortPrefix(ShiftInsert(a, i, a[i]), k, i + 1)

\* for i in k..len { if slice[i] < slice[k - 1] { ... } }
\* With k = 0 the index k - 1 underflows: a panic in either build profile
\* (the subtraction with overflow checks, the slice index without them).
\* The trace records the array after the prefix sort and after each iteration,
\* with the number of elements examined so far.
RECURSIVE ScanLoop(_, _, _, _)
ScanLoop(a, k, i, tr) ==
    IF i >= LenOf(a) THEN [arr |-> a, panicked |-> FALSE, trace |-> tr]
    ELSE IF k = 0 THEN [arr |-> a, panicked |-> TRUE, trace |-> tr]
    ELSE LET next == IF a[i].key < a[k - 1].key
                     THEN ShiftInsert(a, k - 1, a[i])
                     ELSE a
         IN  ScanLoop(next, k, i + 1,
                      Append(tr, [seen |-> i + 1, arr |-> next]))

partial_sort_smallest_k_NoPrefixSort(a, k0) ==
    LET k == Min(k0, LenOf(a))
    IN  ScanLoop(a, k, k, << [seen |-> k, arr |-> a] >>)

partial_sort_smallest_k(a, k0) ==
    LET k      == Min(k0, LenOf(a))
        sorted == SortPrefix(a, k, 1)
    IN  ScanLoop(sorted, k, k, << [seen |-> k, arr |-> sorted] >>)

(***************************************************************************)
(* The sorting entry points as operations on the shared array.  The host   *)
(* writes an array of f32 or of i32, then calls one entry point, which     *)
(* runs to completion (or panics) before control returns.                  *)
(***************************************************************************)
vars == <<sortVars, matVars, arenaVars, imgVars, pixVars, statVars, jsonVars>>

\* The sort state while another component is exercised, and likewise below.
IdleSort ==
    /\ ty = "f32" /\ input = <<>> /\ arr = <<>> /\ pc = "idle" /\ algo = "none"
    /\ build = "release" /\ karg = -1 /\ exps = <<>> /\ depth = 0
    /\ trace = <<>>

IdleMultiply ==
    /\ dims = [m |-> 0, n |-> 0, p |-> 0]
    /\ ma = <<>> /\ mb = <<>> /\ mc = <<>> /\ mpc = "idle"

IdleTranspose ==
    /\ order = 0 /\ matrix = <<>> /\ given = <<>> /\ transposed = <<>>
    /\ swaps = <<>> /\ tpc = "idle"

IdleMat == IdleMultiply /\ IdleTranspose

NoCall == [op |-> "none", ptr |-> 0, size |-> 0, paired |-> TRUE, before |-> {}]

IdleArena == live = {} /\ held = {} /\ last = NoCall /\ arenaState = "idle"

IdleImg ==
    /\ width = 0 /\ height = 0 /\ radius = 0 /\ src = <<>> /\ dst = <<>>
    /\ ipc = "idle"

IdlePix ==
    /\ pixels = <<>> /\ original = <<>> /\ once = <<>> /\ op = "none"
    /\ param = 0 /\ applied = 0 /\ written = {} /\ pwidth = 0 /\ pheight = 0
    /\ ppc = "idle"

IdleStat ==
    /\ data = <<>> /\ target = 0 /\ stat = "none" /\ ret = 0 /\ reads = {}
    /\ stores = {} /\ spc = "idle"

IdleJson == json = <<>> /\ valid = FALSE /\ jpc = "idle"

\* Every component but the one a specification exercises is idle.
IdleButSort == IdleMat /\ IdleArena /\ IdleImg /\ IdlePix /\ IdleStat /\ IdleJson
IdleButMat == IdleSort /\ IdleArena /\ IdleImg /\ IdlePix /\ IdleStat /\ IdleJson
IdleButArena == IdleSort /\ IdleMat /\ IdleImg /\ IdlePix /\ IdleStat /\ IdleJson
IdleButImg == IdleSort /\ IdleMat /\ IdleArena /\ IdlePix /\ IdleStat /\ IdleJson
IdleButPix == IdleSort /\ IdleMat /\ IdleArena /\ IdleImg /\ IdleStat /\ IdleJson
IdleButStat == IdleSort /\ IdleMat /\ IdleArena /\ IdleImg /\ IdlePix /\ IdleJson
IdleButJson == IdleSort /\ IdleMat /\ IdleArena /\ IdleImg /\ IdlePix /\ IdleStat

InitSortVars ==
    /\ ty \in {"f32", "i32"}
    /\ input \in IF ty = "f32" THEN Arrays(F32Values, MaxLen)
                               ELSE Arrays(I32Values, MaxLenI32)
    /\ arr = input
    /\ pc = "ready"
    /\ algo = "none"
    /\ build \in {"debug", "release"}
    /\ karg = -1
    /\ exps = <<>>
    /\ depth = 0
    /\ trace = <<>>

Returned(name, r) ==
    /\ arr' = r.arr
    /\ depth' = r.depth
    /\ algo' = name
    /\ pc' = "done"
    /\ UNCHANGED <<ty, input, build, karg, exps, trace, matVars, arenaVars, imgVars,
                 pixVars, statVars, jsonVars>>

Quicksort ==
    /\ pc = "ready" /\ ty = "f32"
    /\ Returned("quicksort_f32", quicksort_f32(arr))

Mergesort ==
    /\ pc = "ready" /\ ty = "f32"
    /\ Returned("mergesort_f32", mergesort_f32(arr))

Heapsort ==
    /\ pc = "ready" /\ ty = "f32"
    /\ Returned("heapsort_f32", heapsort_f32(arr))

Radixsort ==
    /\ pc = "ready" /\ ty = "i32"
    /\ LET r == radixsort_i32(arr, build)
       IN  /\ arr' = r.arr
           /\ exps' = r.exps
           /\ pc' = IF r.panicked THEN "panic" ELSE "done"
    /\ algo' = "radixsort_i32"
    /\ UNCHANGED <<ty, input, build, karg, depth, trace, matVars, arenaVars, imgVars,
                 pixVars, statVars, jsonVars>>

PartialSort ==
    /\ pc = "ready" /\ ty = "f32"
    /\ \E k \in 0..(MaxLen + 1) :
         LET r == partial_sort_smallest_k(arr, k)
         IN  /\ karg' = k
             /\ arr' = r.arr
             /\ trace' = r.trace
             /\ pc' = IF r.panicked THEN "panic" ELSE "done"
    /\ algo' = "partial_sort_smallest_k"
    /\ UNCHANGED <<ty, input, build, exps, depth, matVars, arenaVars, imgVars,
                 pixVars, statVars, jsonVars>>

InitSort == InitSortVars /\ IdleButSort

NextSort == Quicksort \/ Mergesort \/ Heapsort \/ Radixsort \/ PartialSort

SpecSort == InitSort /\ [][NextSort]_vars

(***************************************************************************)
(* Properties of the sorts.                                                *)
(***************************************************************************)
Sorted(a) == \A i, j \in DOMAIN a : i < j => a[i].key <= a[j].key

Count(a, v) == Cardinality({i \in DOMAIN a : a[i].key = v})

Keys(a) == {a[i].key : i \in DOMAIN a}

\* a and b hold the same multiset of values.
SameMultiset(a, b) ==
    /\ LenOf(a) = LenOf(b)
    /\ \A v \in Keys(a) \cup Keys(b) : Count(a, v) = Count(b, v)

NonNegative(a) == \A i \in DOMAIN a : a[i].key >= 0

FullSorts == {"quicksort_f32", "mergesort_f32", "heapsort_f32"}

\* C1: after quicksort_f32, mergesort_f32 or heapsort_f32 returns, the array
\* is in non-decreasing order, whatever its length and its duplicates.
C1_Sorted == (pc = "done" /\ algo \in FullSorts) => Sorted(arr)

C1_Witness ==
    /\ pc = "done" /\ algo = "quicksort_f32"
    /\ LenOf(input) = 3 /\ ~Sorted(input)
    /\ input[0].key = input[2].key

\* C2: the array left by quicksort_f32, mergesort_f32 and heapsort_f32, and by
\* radixsort_i32 on an input without negative values (however that call
\* ends), holds the same multiset of values as the input.
C2_Permutation ==
    \/ pc = "done" /\ algo \in FullSorts
    \/ pc # "ready" /\ algo = "radixsort_i32" /\ NonNegative(input)
    => SameMultiset(input, arr)

C2_Witness ==
    /\ pc = "done" /\ algo = "radixsort_i32"
    /\ LenOf(input) = 3 /\ ~Sorted(input)
    /\ input[0].key = input[2].key /\ input[1].key = 3

C4_NeverFails == algo = "partial_sort_smallest_k" => pc # "panic"

\* C5: for 1 <= k <= len the array left by partial_sort_smallest_k is a
\* permutation of the input.
C5_Permutation ==
    (pc = "done" /\ algo = "partial_sort_smallest_k"
        /\ 1 <= karg /\ karg <= LenOf(input))
    => SameMultiset(input, arr)

\* The multipliers 1, 10, 100, ... that select the decimal digits of m.
RECURSIVE DecimalExps(_, _, _)
DecimalExps(m, e, acc) ==
    IF m \div e = 0 THEN acc
    ELSE IF e > I32Max \div 10 THEN Append(acc, e)
    ELSE DecimalExps(m, e * 10, Append(acc, e))

\* C6: on an array of non-negative i32 values radixsort_i32 completes, leaves
\* the array in non-decreasing order, and runs one pass per decimal digit of
\* the maximum value and no other pass.
C6_RadixNonNegative ==
    (pc # "ready" /\ algo = "radixsort_i32" /\ NonNegative(input)) =>
        /\ pc = "done"
        /\ Sorted(arr)
        /\ exps = DecimalExps(MaxAbs(input, 0, 0), 1, <<>>)

(***************************************************************************)
(* Matrix multiply (lib.rs 344-367).  A, B and C are three buffers of the  *)
(* host: the routine takes A and B as shared slices and C as the one       *)
(* mutable slice.                                                          *)
(***************************************************************************)
\* for val in c.iter_mut() { *val = 0.0 }
ZeroFill(c) == [x \in DOMAIN c |-> 0]

\* for j in 0..p { c[i * p + j] += a_val * b[k * p + j] }
RECURSIVE MulLoopJ(_, _, _, _, _, _, _)
MulLoopJ(c, a_val, b, i, k, j, p) ==
    IF j >= p THEN c
    ELSE MulLoopJ([c EXCEPT ![i * p + j] = c[i * p + j] + a_val * b[k * p + j]],
                  a_val, b, i, k, j + 1, p)

\* for k in 0..n { let a_val = a[i * n + k]; ... }
RECURSIVE MulLoopK(_, _, _, _, _, _, _)
MulLoopK(c, a, b, i, k, n, p) ==
    IF k >= n THEN c
    ELSE MulLoopK(MulLoopJ(c, a[i * n + k], b, i, k, 0, p), a, b, i, k + 1, n, p)

\* for i in 0..m { ... }
RECURSIVE MulLoopI(_, _, _, _, _, _, _)
MulLoopI(c, a, b, i, m, n, p) ==
    IF i >= m THEN c
    ELSE MulLoopI(MulLoopK(c, a, b, i, 0, n, p), a, b, i + 1, m, n, p)

\* matrix_multiply keeping what the destination held.
matrix_multiply_NoZeroFill(a, m, n, b, p, c) == MulLoopI(c, a, b, 0, m, n, p)

matrix_multiply(a, m, n, b, p, c) == MulLoopI(ZeroFill(c), a, b, 0, m, n, p)

MatValues == {-1, 0, 2}

\* What the destination may hold before the call.
Garbage(len) == { [x \in 0..(len - 1) |-> 7], [x \in 0..(len - 1) |-> x - 3] }

Dims ==
    { d \in [m : 0..MaxCells, n : 0..MaxCells, p : 0..MaxCells] :
        d.m * d.n <= MaxCells /\ d.n * d.p <= MaxCells /\ d.m * d.p <= MaxCells }

\* The case of tests::test_matrix_multiply (lib.rs 460-471).
TestA == [x \in 0..3 |-> x + 1]
TestB == [x \in 0..3 |-> x + 5]

InitMatVars ==
    /\ mpc = "ready"
    /\ \/ /\ dims \in Dims
          /\ ma \in [0..(dims.m * dims.n - 1) -> MatValues]
          /\ mb \in [0..(dims.n * dims.p - 1) -> MatValues]
       \/ /\ dims = [m |-> 2, n |-> 2, p |-> 2]
          /\ ma = TestA
          /\ mb = TestB
    /\ mc \in Garbage(dims.m * dims.p)

MatrixMultiply ==
    /\ mpc = "ready"
    /\ mc' = matrix_multiply(ma, dims.m, dims.n, mb, dims.p, mc)
    /\ mpc' = "done"
    /\ UNCHANGED <<dims, ma, mb, order, matrix, given, transposed, swaps, tpc,
                   sortVars, arenaVars, imgVars, pixVars, statVars, jsonVars>>

InitMat == InitMatVars /\ IdleTranspose /\ IdleButMat

NextMat == MatrixMultiply

SpecMat == InitMat /\ [][NextMat]_vars

\* The sum over k in 0..n of A[i*n+k] * B[k*p+j].
RECURSIVE DotRowCol(_, _, _, _, _, _, _)
DotRowCol(a, b, i, j, n, p, k) ==
    IF k >= n THEN 0
    ELSE a[i * n + k] * b[k * p + j] + DotRowCol(a, b, i, j, n, p, k + 1)

\* C7: matrix_multiply leaves in every C[i*p+j] the sum over k of
\* A[i*n+k] * B[k*p+j], whatever C held before, and leaves A and B as they
\* were; on the matrices of the test, C = [19, 22, 43, 50].
C7_MatrixMultiply ==
    [][ (mpc = "ready" /\ mpc' = "done") =>
          /\ ma' = ma /\ mb' = mb
          /\ DOMAIN mc' = 0..(dims.m * dims.p - 1)
          /\ \A i \in 0..(dims.m - 1), j \in 0..(dims.p - 1) :
                mc'[i * dims.p + j] = DotRowCol(ma, mb, i, j, dims.n, dims.p, 0)
          /\ (ma = TestA /\ mb = TestB /\ dims.n = 2 /\ dims.p = 2)
                => (mc'[0] = 19 /\ mc'[1] = 22 /\ mc'[2] = 43 /\ mc'[3] = 50) ]_vars

C7_Witness ==
    /\ mpc = "done" /\ ma = TestA /\ mb = TestB
    /\ mc[0] = 19 /\ mc[1] = 22 /\ mc[2] = 43 /\ mc[3] = 50

(***************************************************************************)
(* Matrix transpose (lib.rs 369-381).  The routine works in place on the   *)
(* one n * n buffer of the host.  Each step of the inner loop exchanges    *)
(* the elements at i * n + j and j * n + i through a temporary.            *)
(***************************************************************************)
\* for j in (i + 1)..n { let temp = matrix[i * n + j]; ... }
RECURSIVE TransposeLoopJ(_, _, _, _, _)
TransposeLoopJ(mx, sw, i, j, n) ==
    IF j >= n THEN [matrix |-> mx, swaps |-> sw]
    ELSE LET temp == mx[i * n + j]
             m1 == [mx EXCEPT ![i * n + j] = mx[j * n + i]]
             m2 == [m1 EXCEPT ![j * n + i] = temp]
         IN  TransposeLoopJ(m2, Append(sw, <<i * n + j, j * n + i>>),
                            i, j + 1, n)

\* for i in 0..n { ... }
RECURSIVE TransposeLoopI(_, _, _, _)
TransposeLoopI(mx, sw, i, n) ==
    IF i >= n THEN [matrix |-> mx, swaps |-> sw]
    ELSE LET r == TransposeLoopJ(mx, sw, i, i + 1, n)
         IN  TransposeLoopI(r.matrix, r.swaps, i + 1, n)

\* matrix_transpose_square starting at the second row.
matrix_transpose_square_SkipFirstRow(mx, n) == TransposeLoopI(mx, <<>>, 1, n)

matrix_transpose_square(mx, n) == TransposeLoopI(mx, <<>>, 0, n)

\* The elements of a matrix that are not 0.
Marks == {-1, 2}

\* The n x n matrices the host writes: the one whose elements all differ,
\* and those with at most MaxMarked elements that are not 0.
SquareMatrices(n) ==
    { [x \in 0..(n * n - 1) |-> x + 1] }
      \cup UNION { { [x \in 0..(n * n - 1) |->
                        IF x \in marked THEN f[x] ELSE 0] :
                     f \in [marked -> Marks] } :
                   marked \in { q \in SUBSET (0..(n * n - 1)) :
                                  Cardinality(q) <= MaxMarked } }

InitTransposeVars ==
    /\ tpc = "ready"
    /\ order \in 0..MaxOrder
    /\ matrix \in SquareMatrices(order)
    /\ given = matrix
    /\ transposed = <<>>
    /\ swaps = <<>>

\* The host calls the routine, and may call it again on the result.
MatrixTransposeSquare ==
    /\ tpc \in {"ready", "once"}
    /\ LET r == matrix_transpose_square(matrix, order)
       IN  /\ matrix' = r.matrix
           /\ swaps' = r.swaps
           /\ transposed' = IF tpc = "ready" THEN r.matrix ELSE transposed
    /\ tpc' = IF tpc = "ready" THEN "once" ELSE "twice"
    /\ UNCHANGED <<order, given, dims, ma, mb, mc, mpc, sortVars, arenaVars,
                   imgVars, pixVars, statVars, jsonVars>>

InitTranspose == InitTransposeVars /\ IdleMultiply /\ IdleButMat

NextTranspose == MatrixTransposeSquare

SpecTranspose == InitTranspose /\ [][NextTranspose]_vars

\* b is the transpose of the n x n matrix a.
IsTranspose(b, a, n) ==
    /\ DOMAIN b = 0..(n * n - 1)
    /\ \A i \in 0..(n - 1), j \in 0..(n - 1) : b[i * n + j] = a[j * n + i]

\* The steps of sw that exchange the elements at (i, j) and (j, i).
SwapsOf(sw, i, j, n) ==
    { s \in DOMAIN sw : sw[s] \in {<<i * n + j, j * n + i>>,
                                   <<j * n + i, i * n + j>>} }

\* Every pair across the diagonal is exchanged by exactly one step of sw, and
\* no step touches an element of the diagonal.
EachPairOnce(sw, n) ==
    /\ \A i \in 0..(n - 1), j \in 0..(n - 1) :
          Cardinality(SwapsOf(sw, i, j, n)) = IF i = j THEN 0 ELSE 1
    /\ 2 * Len(sw) = n * (n - 1)

\* C21: after matrix_transpose_square on an n x n row-major matrix, n >= 0,
\* the element at (i, j) is the original element at (j, i), the diagonal is
\* as it was, each pair across the diagonal was exchanged exactly once, and
\* a second call gives back the original matrix.
C21_Transpose ==
    /\ tpc \in {"once", "twice"} =>
          /\ IsTranspose(transposed, given, order)
          /\ \A i \in 0..(order - 1) :
                transposed[i * order + i] = given[i * order + i]
          /\ EachPairOnce(swaps, order)
    /\ tpc = "once" => matrix = transposed
    /\ tpc = "twice" => matrix = given

C21_Witness ==
    /\ tpc = "twice" /\ order = 3
    /\ transposed # given /\ matrix = given
    /\ Len(swaps) = 3
    /\ \A x \in DOMAIN given : given[x] = x + 1

(***************************************************************************)
(* allocate and deallocate (lib.rs 26-39).  allocate leaks the buffer of a *)
(* Vec of the asked capacity; deallocate rebuilds a Vec of capacity size   *)
(* at ptr and drops it.  The memory manager behind them hands out disjoint *)
(* ranges of the heap and takes back a range handed out, given its size.   *)
(***************************************************************************)
Dangling == 1   \* the pointer of a Vec<u8> of capacity 0: no block behind it

Addresses == 2..(HeapSize + 1)

Block(ptr, size) == [ptr |-> ptr, size |-> size]

Overlaps(b, ptr, size) == b.ptr < ptr + size /\ ptr < b.ptr + b.size

\* The range [ptr, ptr+size) lies in the heap and no block reaches into it.
FreeAt(lv, ptr, size) ==
    /\ ptr \in Addresses /\ ptr + size - 1 \in Addresses
    /\ \A b \in lv : ~Overlaps(b, ptr, size)

\* Vec::with_capacity(size), as_mut_ptr, mem::forget: the outcomes.
allocate(lv, size) ==
    IF size = 0
    THEN {[ptr |-> Dangling, live |-> lv, state |-> "ok"]}
    ELSE IF \E a \in Addresses : FreeAt(lv, a, size)
         THEN {[ptr |-> a, live |-> lv \cup {Block(a, size)}, state |-> "ok"] :
                    a \in {x \in Addresses : FreeAt(lv, x, size)}}
         ELSE {[ptr |-> 0, live |-> lv, state |-> "abort"]}

\* deallocate that forgets the Vec instead of dropping it.
deallocate_Forget(lv, ptr, size) == {[live |-> lv, state |-> "ok"]}

\* drop(Vec::from_raw_parts(ptr, 0, size)): the outcomes.  A capacity of 0
\* frees nothing.  A (ptr, size) that is an outstanding block is given back.
\* Anything else is undefined behaviour of the memory manager: it may do
\* nothing, may give back a block that the range touches, and may be left
\* with corrupt bookkeeping.
deallocate(lv, ptr, size) ==
    IF size = 0 THEN {[live |-> lv, state |-> "ok"]}
    ELSE IF Block(ptr, size) \in lv
    THEN {[live |-> lv \ {Block(ptr, size)}, state |-> "ok"]}
    ELSE {[live |-> l, state |-> st] :
            l \in {lv} \cup {lv \ {b} : b \in {x \in lv : Overlaps(x, ptr, size)}},
            st \in {"ok", "corrupt"}}

InitArenaVars ==
    /\ live = {} /\ held = {} /\ last = NoCall /\ arenaState = "ok"

Allocate ==
    /\ arenaState = "ok"
    /\ \E size \in 0..MaxAlloc : \E r \in allocate(live, size) :
         /\ live' = r.live
         /\ arenaState' = r.state
         /\ held' = IF r.state = "ok" THEN held \cup {Block(r.ptr, size)} ELSE held
         /\ last' = [op |-> "allocate", ptr |-> r.ptr, size |-> size,
                     paired |-> TRUE, before |-> live]
    /\ UNCHANGED <<sortVars, matVars, imgVars, pixVars, statVars, jsonVars>>

DeallocateCall(ptr, size) ==
    \E r \in deallocate(live, ptr, size) :
         /\ live' = r.live
         /\ arenaState' = r.state
         /\ held' = held \ {Block(ptr, size)}
         /\ last' = [op |-> "deallocate", ptr |-> ptr, size |-> size,
                     paired |-> Block(ptr, size) \in held, before |-> live]

\* The host gives back a block it holds, with the size it asked for.
Deallocate ==
    /\ arenaState = "ok"
    /\ \E b \in held : DeallocateCall(b.ptr, b.size)
    /\ UNCHANGED <<sortVars, matVars, imgVars, pixVars, statVars, jsonVars>>

\* The host calls deallocate with any pointer and any size.
DeallocateAny ==
    /\ arenaState = "ok"
    /\ \E ptr \in Addresses \cup {Dangling}, size \in 0..MaxAlloc :
         DeallocateCall(ptr, size)
    /\ UNCHANGED <<sortVars, matVars, imgVars, pixVars, statVars, jsonVars>>

InitArena == InitArenaVars /\ IdleButArena

NextArena == Allocate \/ Deallocate

SpecArena == InitArena /\ [][NextArena]_vars

NextArenaMisuse == Allocate \/ DeallocateAny

SpecArenaMisuse == InitArena /\ [][NextArenaMisuse]_vars

\* C8: after deallocate(p, n) of a block that allocate(n) returned, nothing of
\* the n bytes stays outstanding and a further allocate(n) finds room, after
\* any number of allocate/deallocate pairs.
C8_RoundTrip ==
    (last.op = "deallocate" /\ last.paired) =>
        /\ arenaState = "ok"
        /\ live = last.before \ {Block(last.ptr, last.size)}
        /\ \A b \in live : ~Overlaps(b, last.ptr, last.size)
        /\ \A r \in allocate(live, last.size) : r.state = "ok"

C8_Witness ==
    /\ last.op = "deallocate" /\ last.paired /\ last.size = MaxAlloc
    /\ Cardinality(live) = 1
    /\ Block(last.ptr, last.size) \in last.before

\* C9: a deallocate that does not pair with an outstanding allocation (a
\* second deallocate of a range, or a size other than the allocated one) is
\* refused and leaves the outstanding allocations as they were.
C9_UnpairedRejected ==
    (last.op = "deallocate" /\ ~last.paired) =>
        (arenaState = "ok" /\ live = last.before)

(***************************************************************************)
(* f32 arithmetic on the values box_blur computes: an unsigned sum         *)
(* converted to f32, divided by the window area, truncated to a byte.      *)
(* An f32 has a 24-bit significand and rounds to nearest, ties to even.    *)
(***************************************************************************)
RECURSIVE Pow2(_)
Pow2(n) == IF n = 0 THEN 1 ELSE 2 * Pow2(n - 1)

\* The spacing of the f32 values around the integer n >= 2^24.
RECURSIVE UlpOf(_, _)
UlpOf(n, u) == IF n \div u < Pow2(24) THEN u ELSE UlpOf(n, 2 * u)

\* n as f32, for an integer n >= 0: the nearest f32, itself an integer.
U32AsF32(n) ==
    IF n < Pow2(24) THEN n
    ELSE LET u == UlpOf(n, 1)
             q == n \div u
             r == n % u
         IN  IF 2 * r > u \/ (2 * r = u /\ q % 2 = 1) THEN (q + 1) * u ELSE q * u

\* The k with 2^k < v <= 2^(k+1), for an integer v >= 1: the f32 values just
\* below v are 2^(k-23) apart.
RECURSIVE BinadeBelow(_, _)
BinadeBelow(v, k) == IF v <= Pow2(k + 1) THEN k ELSE BinadeBelow(v, k + 1)

\* (s / a) as u8 for f32 values s >= 0 and a > 0 that are integers: the
\* quotient rounded to f32, then truncated and saturated at 255.  The
\* rounded quotient reaches the integer t + 1 above the exact quotient when
\* the exact quotient is within half a spacing of it.
F32DivAsU8(s, a) ==
    LET t == s \div a
    IN  IF t >= 255 THEN 255
        ELSE IF s % a = 0 THEN t
        ELSE LET d == (t + 1) * a - s
                 k == IF t = 0 THEN -1 ELSE BinadeBelow(t + 1, 0)
             IN  IF d <= a \div Pow2(24 - k) THEN t + 1 ELSE t

(***************************************************************************)
(* Box blur (image.rs 74-115).  The u32 channel sums stay below 2^31 for   *)
(* the radii of the model (they pass 2^32 from radius 2052 on), and the    *)
(* radii fit an i32.                                                       *)
(***************************************************************************)
Clamp(v, lo, hi) == IF v < lo THEN lo ELSE IF v > hi THEN hi ELSE v

Add4(s, t) == <<s[1] + t[1], s[2] + t[2], s[3] + t[3], s[4] + t[4]>>

\* What one pass of the inner loop body adds to r_sum, g_sum, b_sum, a_sum.
BlurSample(s, w, h, x, y, dy, dx) ==
    LET nx  == Clamp(x + dx, 0, w - 1)
        ny  == Clamp(y + dy, 0, h - 1)
        idx == (ny * w + nx) * 4
    IN  <<s[idx], s[idx + 1], s[idx + 2], s[idx + 3]>>

\* for dx in -(radius as i32)..=(radius as i32) { ... }, here over lo..hi.
\* The sums are of unsigned integers, so the range is added up in halves,
\* which keeps the evaluation shallow.
RECURSIVE BlurLoopDx(_, _, _, _, _, _, _, _)
BlurLoopDx(s, w, h, x, y, dy, lo, hi) ==
    IF lo > hi THEN <<0, 0, 0, 0>>
    ELSE IF lo = hi THEN BlurSample(s, w, h, x, y, dy, lo)
    ELSE LET mid == lo + ((hi - lo) \div 2)
         IN  Add4(BlurLoopDx(s, w, h, x, y, dy, lo, mid),
                  BlurLoopDx(s, w, h, x, y, dy, mid + 1, hi))

\* for dy in -(radius as i32)..=(radius as i32) { ... }, here over lo..hi.
RECURSIVE BlurLoopDy(_, _, _, _, _, _, _, _)
BlurLoopDy(s, w, h, x, y, lo, hi, rad) ==
    IF lo > hi THEN <<0, 0, 0, 0>>
    ELSE IF lo = hi THEN BlurLoopDx(s, w, h, x, y, lo, -rad, rad)
    ELSE LET mid == lo + ((hi - lo) \div 2)
         IN  Add4(BlurLoopDy(s, w, h, x, y, lo, mid, rad),
                  BlurLoopDy(s, w, h, x, y, mid + 1, hi, rad))

\* The four bytes written for the pixel (x, y).
BlurPixel(s, d, w, h, x, y, rad, area) ==
    LET sums == BlurLoopDy(s, w, h, x, y, -rad, rad, rad)
        idx  == (y * w + x) * 4
    IN  [d EXCEPT ![idx]     = F32DivAsU8(U32AsF32(sums[1]), area),
                  ![idx + 1] = F32DivAsU8(U32AsF32(sums[2]), area),
                  ![idx + 2] = F32DivAsU8(U32AsF32(sums[3]), area),
                  ![idx + 3] = F32DivAsU8(U32AsF32(sums[4]), area)]

\* for y in 0..height { for x in 0..width { ... } }, over p = y * width + x.
RECURSIVE BlurLoopPixels(_, _, _, _, _, _, _)
BlurLoopPixels(s, d, w, h, p, rad, area) ==
    IF p >= w * h THEN d
    ELSE BlurLoopPixels(s, BlurPixel(s, d, w, h, p % w, p \div w, rad, area),
                        w, h, p + 1, rad, area)

box_blur(s, d, w, h, rad) ==
    LET diameter == rad * 2 + 1
        area     == U32AsF32(diameter * diameter)
    IN  BlurLoopPixels(s, d, w, h, 0, rad, area)

\* The RGBA colours of the pixels the host writes.
PixelColours == { <<0, 0, 0, 255>>, <<10, 100, 200, 128>>, <<253, 253, 253, 253>> }

\* The buffer of an image whose pixel p has the colour f[p].
BufferOf(f, n) == [x \in 0..(4 * n - 1) |-> f[x \div 4][(x % 4) + 1]]

Images(w, h) == { BufferOf(f, w * h) : f \in [0..(w * h - 1) -> PixelColours] }

\* Radii tried on the 1 x 1 image only: the window has 259 * 259 pixels.
LargeRadii == {129}

InitBlurVars ==
    /\ ipc = "ready"
    /\ \/ /\ width \in 1..MaxSide /\ height \in 1..MaxSide
          /\ radius \in 0..MaxRadius
       \/ /\ width = 1 /\ height = 1
          /\ radius \in LargeRadii
    /\ src \in Images(width, height)
    /\ dst = [x \in 0..(4 * width * height - 1) |-> 0]

BoxBlur ==
    /\ ipc = "ready"
    /\ dst' = box_blur(src, dst, width, height, radius)
    /\ ipc' = "done"
    /\ UNCHANGED <<width, height, radius, src, sortVars, matVars, arenaVars,
                 pixVars, statVars, jsonVars>>

InitBlur == InitBlurVars /\ IdleButImg

NextBlur == BoxBlur

SpecBlur == InitBlur /\ [][NextBlur]_vars

\* All pixels of the buffer b have the same four bytes.
Uniform(b) == \A x \in DOMAIN b : b[x] = b[x % 4]

\* C10: box_blur of a source whose pixels all have one colour writes a
\* destination whose pixels all have that colour, for every radius.
C10_UniformUnchanged == (ipc = "done" /\ Uniform(src)) => dst = src

(***************************************************************************)
(* The per-pixel transforms (image.rs 14-66 and 174-228).  Each works in   *)
(* place on the width * height * 4 bytes of an RGBA buffer.                *)
(***************************************************************************)
\* A non-negative f32 is the pair [m, e] of its 24-bit significand and its
\* exponent: the value m * 2^e with 2^23 <= m < 2^24, or m = 0 for 0.0.  The
\* operations below round to nearest, ties to even, as the f32 operations of
\* the target do.  No value of the transforms is subnormal or infinite.
F32Zero == [m |-> 0, e |-> 0]

Two22 == Pow2(22)
Two23 == Pow2(23)
Two24 == Pow2(24)
Two26 == Pow2(26)

\* The significand m with its round bit and its sticky bit, rounded.
RoundEven(m, round, sticky, e) ==
    LET up == IF round /\ (sticky \/ m % 2 = 1) THEN m + 1 ELSE m
    IN  IF up = Two24 THEN [m |-> Two23, e |-> e + 1]
        ELSE [m |-> up, e |-> e]

\* The f32 nearest to q + r / den at the scale 2^e, for the quotient q and
\* the remainder r of a long division by den, taken to 24 bits.
RECURSIVE LongDivide(_, _, _, _)
LongDivide(q, r, den, e) ==
    IF q >= Two23
    THEN RoundEven(q, 2 * r >= den, (2 * r) % den # 0, e)
    ELSE LET r2 == 2 * r
         IN  IF r2 >= den THEN LongDivide(2 * q + 1, r2 - den, den, e - 1)
             ELSE LongDivide(2 * q, r2, den, e - 1)

\* The f32 a decimal literal num / den denotes (a literal such as 0.299 is
\* 299 / 1000), for 0 <= num < 2^23 * den.
F32Literal(num, den) ==
    IF num = 0 THEN F32Zero ELSE LongDivide(num \div den, num % den, den, 0)

\* v as f32, for an integer 0 <= v < 2^24: exact.
RECURSIVE Normalize(_, _)
Normalize(m, e) ==
    IF m = 0 THEN F32Zero
    ELSE IF m >= Two23 THEN [m |-> m, e |-> e]
    ELSE Normalize(2 * m, e - 1)

U8AsF32(v) == Normalize(v, 0)

\* a * b.  The 48-bit product of the significands is kept in two halves of
\* 24 bits, built from products of 12-bit halves.
F32Mul(a, b) ==
    IF a.m = 0 \/ b.m = 0 THEN F32Zero
    ELSE LET ah  == a.m \div 4096
             al  == a.m % 4096
             bh  == b.m \div 4096
             bl  == b.m % 4096
             mid == ah * bl + al * bh
             low == al * bl + (mid % 4096) * 4096
             lo  == low % Two24
             hi  == ah * bh + (mid \div 4096) + (low \div Two24)
         IN  IF hi >= Two23
             THEN RoundEven(hi, lo >= Two23, lo % Two23 # 0,
                            a.e + b.e + 24)
             ELSE RoundEven(2 * hi + (lo \div Two23),
                            (lo \div Two22) % 2 = 1, lo % Two22 # 0,
                            a.e + b.e + 23)

\* a < b.
F32Less(a, b) ==
    IF b.m = 0 THEN FALSE
    ELSE IF a.m = 0 THEN TRUE
    ELSE a.e < b.e \/ (a.e = b.e /\ a.m < b.m)

\* a + b.  The smaller operand is aligned to two bits below the larger one,
\* the bits shifted out kept as a sticky bit.
F32Add(a, b) ==
    IF F32Less(a, b) THEN
        \* swapped, so that the recursion-free body sees the larger one first
        LET d == b.e - a.e
        IN  IF a.m = 0 \/ d >= 26 THEN b
            ELSE LET small  == IF d <= 2 THEN a.m * Pow2(2 - d)
                               ELSE a.m \div Pow2(d - 2)
                     sticky == d > 2 /\ a.m % Pow2(d - 2) # 0
                     sum    == 4 * b.m + small
                 IN  IF sum < Two26
                     THEN RoundEven(sum \div 4, (sum \div 2) % 2 = 1,
                                    sum % 2 = 1 \/ sticky, b.e)
                     ELSE RoundEven(sum \div 8, (sum \div 4) % 2 = 1,
                                    sum % 4 # 0 \/ sticky, b.e + 1)
    ELSE
        LET d == a.e - b.e
        IN  IF b.m = 0 \/ d >= 26 THEN a
            ELSE LET small  == IF d <= 2 THEN b.m * Pow2(2 - d)
                               ELSE b.m \div Pow2(d - 2)
                     sticky == d > 2 /\ b.m % Pow2(d - 2) # 0
                     sum    == 4 * a.m + small
                 IN  IF sum < Two26
                     THEN RoundEven(sum \div 4, (sum \div 2) % 2 = 1,
                                    sum % 2 = 1 \/ sticky, a.e)
                     ELSE RoundEven(sum \div 8, (sum \div 4) % 2 = 1,
                                    sum % 4 # 0 \/ sticky, a.e + 1)

\* x as u8, for x >= 0.0: truncated, saturated at 255.
F32AsU8(x) ==
    IF x.m = 0 THEN 0
    ELSE IF x.e >= 0 THEN 255
    ELSE IF x.e <= -24 THEN 0
    ELSE Min(x.m \div Pow2(-x.e), 255)

\* x.min(y).
F32Min(x, y) == IF F32Less(y, x) THEN y ELSE x

Two27 == Pow2(27)

\* The difference d >= 1 at the scale 2^e, three bits below the significand,
\* brought up to 27 bits and rounded.  A sticky difference is above 2^25, so
\* it moves up one place at most and its round bit is known.
RECURSIVE Renormalize(_, _, _)
Renormalize(d, sticky, e) ==
    IF d >= Pow2(26)
    THEN RoundEven(d \div 8, (d \div 4) % 2 = 1, d % 4 # 0 \/ sticky, e)
    ELSE Renormalize(2 * d, sticky, e - 1)

\* a - b, for a >= b.  b is aligned to three bits below a, the bits shifted
\* out kept as a sticky bit, which borrows one unit of the last place.
F32Sub(a, b) ==
    IF b.m = 0 THEN a
    ELSE LET d      == a.e - b.e
             small  == IF d <= 3 THEN b.m * Pow2(3 - d)
                       ELSE IF d >= 30 THEN 0
                       ELSE b.m \div Pow2(d - 3)
             sticky == d > 3 /\ (d >= 30 \/ b.m % Pow2(d - 3) # 0)
             diff   == 8 * a.m - small - (IF sticky THEN 1 ELSE 0)
         IN  IF diff = 0 THEN F32Zero ELSE Renormalize(diff, sticky, a.e)

\* x as i32, for x >= 0.0: truncated, saturated at i32::MAX.
F32AsI32(x) ==
    IF x.m = 0 THEN 0
    ELSE IF x.e >= 8 THEN I32Max
    ELSE IF x.e >= 0 THEN x.m * Pow2(x.e)
    ELSE IF x.e <= -24 THEN 0
    ELSE x.m \div Pow2(-x.e)

\* wr * r + wg * g + wb * b, evaluated left to right in f32 on the bytes r,
\* g and b.
Weighted(wr, r, wg, g, wb, b) ==
    F32Add(F32Add(F32Mul(wr, U8AsF32(r)), F32Mul(wg, U8AsF32(g))),
           F32Mul(wb, U8AsF32(b)))

\* The luminosity weights 0.299, 0.587 and 0.114.
LumaR == F32Literal(299, 1000)
LumaG == F32Literal(587, 1000)
LumaB == F32Literal(114, 1000)

\* (0.299 * r + 0.587 * g + 0.114 * b) as u8.
Luminance(r, g, b) == F32AsU8(Weighted(LumaR, r, LumaG, g, LumaB, b))

\* a / b, for b > 0.0: the long division of the significands.
F32Div(a, b) ==
    IF a.m = 0 THEN F32Zero
    ELSE LongDivide(a.m \div b.m, a.m % b.m, b.m, a.e - b.e)

\* The largest r + k with (r + k)^2 <= n, k below 2 * bit, for r^2 <= n.
RECURSIVE IsqrtBits(_, _, _)
IsqrtBits(n, r, bit) ==
    IF bit = 0 THEN r
    ELSE IF (r + bit) * (r + bit) <= n THEN IsqrtBits(n, r + bit, bit \div 2)
    ELSE IsqrtBits(n, r, bit \div 2)

\* The integer square root of n * 4^k and whether it is inexact, from the
\* root of n and the remainder rem = n - root^2, one bit of the root a step.
RECURSIVE SqrtDigits(_, _, _)
SqrtDigits(root, rem, k) ==
    IF k = 0 THEN [root |-> root, inexact |-> rem # 0]
    ELSE LET trial == 4 * root + 1
         IN  IF 4 * rem >= trial
             THEN SqrtDigits(2 * root + 1, 4 * rem - trial, k - 1)
             ELSE SqrtDigits(2 * root, 4 * rem, k - 1)

\* x.sqrt(), for x >= 0.0.  With an even exponent e the value is n * 2^e,
\* n < 2^25, and its root is the root of n * 4^13 at the scale 2^(e/2 - 13).
F32Sqrt(x) ==
    IF x.m = 0 THEN F32Zero
    ELSE LET odd == x.e % 2 # 0
             n   == IF odd THEN 2 * x.m ELSE x.m
             e   == IF odd THEN x.e - 1 ELSE x.e
             r0  == IsqrtBits(n, 0, 4096)
             s   == SqrtDigits(r0, n - r0 * r0, 13)
             h   == (e \div 2) - 13
         IN  IF s.root >= Pow2(25)
             THEN RoundEven(s.root \div 4, (s.root \div 2) % 2 = 1,
                            s.root % 2 = 1 \/ s.inexact, h + 2)
             ELSE RoundEven(s.root \div 2, s.root % 2 = 1, s.inexact, h + 1)

\* An f32 of either sign is its sign and its magnitude, or NaN.  0.0 and
\* -0.0, equal in every comparison, are both [neg |-> FALSE].
Signed(neg, mag) == [nan |-> FALSE, neg |-> neg /\ mag.m # 0, mag |-> mag]

NaN == [nan |-> TRUE, neg |-> FALSE, mag |-> F32Zero]

Zero == Signed(FALSE, F32Zero)

\* The f32 the literal num / den denotes, den > 0.
Literal(num, den) == Signed(num < 0, F32Literal(Abs(num), den))

\* n as f32, for a usize n < 2^24.
UsizeAsF32(n) == Signed(FALSE, Normalize(n, 0))

\* a.partial_cmp(&b): "Less", "Equal", "Greater" or "None".
partial_cmp(a, b) ==
    IF a.nan \/ b.nan THEN "None"
    ELSE IF a = b THEN "Equal"
    ELSE IF a.neg /\ ~b.neg THEN "Less"
    ELSE IF ~a.neg /\ b.neg THEN "Greater"
    ELSE IF a.neg THEN (IF F32Less(b.mag, a.mag) THEN "Less" ELSE "Greater")
    ELSE IF F32Less(a.mag, b.mag) THEN "Less" ELSE "Greater"

\* a + b, a - b, a * b, a / b and a.sqrt() on numbers: the entry points below
\* apply them to no NaN and to no infinity.
Plus(a, b) ==
    IF a.neg = b.neg THEN Signed(a.neg, F32Add(a.mag, b.mag))
    ELSE IF F32Less(a.mag, b.mag) THEN Signed(b.neg, F32Sub(b.mag, a.mag))
    ELSE Signed(a.neg, F32Sub(a.mag, b.mag))

Negate(a) == Signed(~a.neg, a.mag)

Minus(a, b) == Plus(a, Negate(b))

Times(a, b) == Signed(a.neg # b.neg, F32Mul(a.mag, b.mag))

\* 0.0 / 0.0 is NaN; the entry points below divide no other number by 0.0.
DividedBy(a, b) ==
    IF a.mag.m = 0 /\ b.mag.m = 0 THEN NaN
    ELSE Signed(a.neg # b.neg, F32Div(a.mag, b.mag))

Sqrt(a) == IF a.neg THEN NaN ELSE Signed(FALSE, F32Sqrt(a.mag))

\* pixels[i] = r; pixels[i + 1] = g; pixels[i + 2] = b: the buffer after the
\* stores and the indices stored to.
Store3_Alpha(p, i, r, g, b) ==
    [buf |-> [p EXCEPT ![i] = r, ![i + 1] = g, ![i + 2] = b, ![i + 3] = 255],
     stored |-> {i, i + 1, i + 2, i + 3}, panicked |-> FALSE]

Store3(p, i, r, g, b) ==
    [buf |-> [p EXCEPT ![i] = r, ![i + 1] = g, ![i + 2] = b],
     stored |-> {i, i + 1, i + 2}, panicked |-> FALSE]

\* The body of the loop of grayscale_rgba.
GrayscalePixel(p, i) ==
    LET gray == Luminance(p[i], p[i + 1], p[i + 2])
    IN  Store3(p, i, gray, gray, gray)

\* pixels[i + j] as i32 + amount overflows: a panic with overflow checks, a
\* wrapped sum without them.
RECURSIVE BrightnessLoop(_, _, _, _, _, _)
BrightnessLoop(p, i, j, amount, bld, st) ==
    IF j >= 3 THEN [buf |-> p, stored |-> st, panicked |-> FALSE]
    ELSE IF amount > I32Max - p[i + j] /\ bld = "debug"
         THEN [buf |-> p, stored |-> st, panicked |-> TRUE]
         ELSE LET val == WrappingAdd(p[i + j], amount)
              IN  BrightnessLoop([p EXCEPT ![i + j] = Clamp(val, 0, 255)],
                                 i, j + 1, amount, bld, st \cup {i + j})

\* The body of the loop of adjust_brightness: for j in 0..3 { ... }.
BrightnessPixel(p, i, amount, bld) == BrightnessLoop(p, i, 0, amount, bld, {})

\* factor.max(0.0), for the factor of sign and magnitude.
MaxZero(factor) == IF factor.neg THEN F32Zero ELSE factor.mag

F128 == U8AsF32(128)

\* ((val - 128.0) * factor + 128.0) as i32, clamped to 0..255, for a byte val
\* and factor >= 0.0.  val - 128.0 is exact.  A negative sum casts to an i32
\* that is not positive, which the clamp takes to 0.
Contrast(val, factor) ==
    LET prod == F32Mul(U8AsF32(Abs(val - 128)), factor)
    IN  IF val >= 128 THEN Clamp(F32AsI32(F32Add(prod, F128)), 0, 255)
        ELSE IF F32Less(F128, prod) THEN 0
        ELSE Clamp(F32AsI32(F32Sub(F128, prod)), 0, 255)

\* The body of the loop of adjust_contrast: for j in 0..3 { ... }.  No channel
\* reads what another one stored.
ContrastPixel(p, i, factor) ==
    Store3(p, i, Contrast(p[i], factor), Contrast(p[i + 1], factor),
           Contrast(p[i + 2], factor))

\* The sepia weights.
SepiaRR == F32Literal(393, 1000)
SepiaRG == F32Literal(769, 1000)
SepiaRB == F32Literal(189, 1000)
SepiaGR == F32Literal(349, 1000)
SepiaGG == F32Literal(686, 1000)
SepiaGB == F32Literal(168, 1000)
SepiaBR == F32Literal(272, 1000)
SepiaBG == F32Literal(534, 1000)
SepiaBB == F32Literal(131, 1000)

F255 == U8AsF32(255)

\* The body of the loop of sepia_filter.
SepiaPixel(p, i) ==
    LET r == p[i]
        g == p[i + 1]
        b == p[i + 2]
        new_r == F32Min(Weighted(SepiaRR, r, SepiaRG, g, SepiaRB, b), F255)
        new_g == F32Min(Weighted(SepiaGR, r, SepiaGG, g, SepiaGB, b), F255)
        new_b == F32Min(Weighted(SepiaBR, r, SepiaBG, g, SepiaBB, b), F255)
    IN  Store3(p, i, F32AsU8(new_r), F32AsU8(new_g), F32AsU8(new_b))

\* The body of the loop of invert_colors.
InvertPixel_KeepBlue(p, i) ==
    Store3(p, i, 255 - p[i], 255 - p[i + 1], p[i + 2])

InvertPixel(p, i) ==
    Store3(p, i, 255 - p[i], 255 - p[i + 1], 255 - p[i + 2])

\* The body of the loop of threshold.
ThresholdPixel(p, i, t) ==
    LET gray == Luminance(p[i], p[i + 1], p[i + 2])
        val  == IF gray > t THEN 255 ELSE 0
    IN  Store3(p, i, val, val, val)

\* The body of the loop of the transform f.name on the pixel at byte i.
Body(f, p, i) ==
    CASE f.name = "grayscale_rgba" -> GrayscalePixel(p, i)
      [] f.name = "adjust_brightness" ->
             BrightnessPixel(p, i, f.param.amount, f.param.build)
      [] f.name = "adjust_contrast" -> ContrastPixel(p, i, f.param)
      [] f.name = "sepia_filter" -> SepiaPixel(p, i)
      [] f.name = "invert_colors" -> InvertPixel(p, i)
      [] f.name = "threshold" -> ThresholdPixel(p, i, f.param)

\* for i in (0..len).step_by(4) { body }.  wr collects the indices stored to.
RECURSIVE StepBy4(_, _, _, _, _)
StepBy4(f, p, len, i, wr) ==
    IF i >= len THEN [buf |-> p, written |-> wr, panicked |-> FALSE]
    ELSE LET q == Body(f, p, i)
         IN  IF q.panicked
             THEN [buf |-> q.buf, written |-> wr \cup q.stored,
                   panicked |-> TRUE]
             ELSE StepBy4(f, q.buf, len, i + 4, wr \cup q.stored)

\* let len = width * height * 4, then the loop.
Transform(name, prm, p, w, h) ==
    StepBy4([name |-> name, param |-> prm], p, w * h * 4, 0, {})

grayscale_rgba(p, w, h) == Transform("grayscale_rgba", 0, p, w, h)

adjust_brightness(p, w, h, amount, bld) ==
    Transform("adjust_brightness", [amount |-> amount, build |-> bld], p, w, h)

adjust_contrast(p, w, h, factor) ==
    Transform("adjust_contrast", MaxZero(factor), p, w, h)

sepia_filter(p, w, h) == Transform("sepia_filter", 0, p, w, h)

invert_colors(p, w, h) == Transform("invert_colors", 0, p, w, h)

threshold(p, w, h, t) == Transform("threshold", t, p, w, h)

(***************************************************************************)
(* The per-pixel transforms as operations on a buffer the host wrote.  The *)
(* host calls one transform, then calls it once more with the same         *)
(* arguments.                                                              *)
(***************************************************************************)
\* The RGBA colours of the pixels handed to the transforms.
TransformColours ==
    { <<37, 37, 37, 255>>, <<0, 14, 253, 128>>, <<255, 255, 255, 0>>,
      <<100, 150, 200, 255>> }

TransformImages(w, h) ==
    { BufferOf(f, w * h) : f \in [0..(w * h - 1) -> TransformColours] }

InitPixVars ==
    /\ pwidth \in 0..MaxPixels
    /\ pheight \in 0..MaxPixels
    /\ pwidth * pheight <= MaxPixels
    /\ pixels \in TransformImages(pwidth, pheight)
    /\ original = pixels
    /\ once = pixels
    /\ op = "none"
    /\ param = 0
    /\ applied = 0
    /\ written = {}
    /\ ppc = "ready"

\* The transform name was called with the argument prm and did r: the first
\* call, or the second one with the argument of the first.
Call(name, prm, r) ==
    /\ ppc \in {"ready", "done"}
    /\ applied < 2
    /\ applied = 1 => (op = name /\ param = prm)
    /\ pixels' = r.buf
    /\ written' = written \cup r.written
    /\ once' = IF applied = 0 THEN r.buf ELSE once
    /\ ppc' = IF r.panicked THEN "panic" ELSE "done"
    /\ op' = name
    /\ param' = prm
    /\ applied' = applied + 1
    /\ UNCHANGED <<original, pwidth, pheight, sortVars, matVars, arenaVars,
                   imgVars, statVars, jsonVars>>

GrayscaleRgba ==
    Call("grayscale_rgba", 0, grayscale_rgba(pixels, pwidth, pheight))

\* The amount arguments tried, of the i32 values.
Amounts == {-300, -20, 20, I32Max}

AdjustBrightness ==
    \E amount \in Amounts, bld \in {"debug", "release"} :
        Call("adjust_brightness", [amount |-> amount, build |-> bld],
             adjust_brightness(pixels, pwidth, pheight, amount, bld))

\* The factor arguments tried, of the f32 values: -1.0, 0.0, 0.5, 1.0, 1.1
\* and 3.0.
Factors ==
    { [neg |-> TRUE, mag |-> F32Literal(1, 1)] } \cup
    { [neg |-> FALSE, mag |-> F32Literal(q[1], q[2])] :
        q \in { <<0, 1>>, <<1, 2>>, <<1, 1>>, <<11, 10>>, <<3, 1>> } }

AdjustContrast ==
    \E factor \in Factors :
        Call("adjust_contrast", factor,
             adjust_contrast(pixels, pwidth, pheight, factor))

SepiaFilter == Call("sepia_filter", 0, sepia_filter(pixels, pwidth, pheight))

InvertColors ==
    Call("invert_colors", 0, invert_colors(pixels, pwidth, pheight))

\* The threshold arguments tried, of the u8 values.
Thresholds == {0, 36, 128, 255}

Threshold ==
    \E t \in Thresholds :
        Call("threshold", t, threshold(pixels, pwidth, pheight, t))

InitPix == InitPixVars /\ IdleButPix

NextPix ==
    \/ GrayscaleRgba
    \/ AdjustBrightness
    \/ AdjustContrast
    \/ SepiaFilter
    \/ InvertColors
    \/ Threshold

SpecPix == InitPix /\ [][NextPix]_vars

\* C11: one call of invert_colors replaces each R, G and B byte v by 255 - v,
\* and two successive calls leave every byte of the buffer as the host wrote
\* it.
C11_Involution ==
    op = "invert_colors" =>
        /\ applied = 1 =>
              \A x \in DOMAIN original :
                  x % 4 # 3 => pixels[x] = 255 - original[x]
        /\ applied = 2 => pixels = original

\* invert_colors ran twice on an image of two pixels that starts with the
\* pixel (100, 150, 200, 255) of the unit test.
C11_Witness ==
    /\ op = "invert_colors" /\ applied = 2 /\ LenOf(original) = 8
    /\ original[0] = 100 /\ once[0] = 155 /\ once[1] = 105 /\ once[2] = 55
    /\ once[3] = 255 /\ pixels[0] = 100

\* C12: calling grayscale_rgba twice, or threshold twice with one threshold
\* value, leaves the buffer the first call left; and grayscale_rgba gives a
\* pixel with R = G = B = v the luminance v.
C12_Idempotent ==
    /\ (op \in {"grayscale_rgba", "threshold"} /\ applied = 2) => pixels = once
    /\ (op = "grayscale_rgba" /\ applied = 1) =>
           \A x \in DOMAIN original :
               (x % 4 = 0 /\ original[x] = original[x + 1]
                          /\ original[x] = original[x + 2])
                   => pixels[x] = original[x]

\* C14: every per-pixel transform leaves the alpha byte of every pixel as it
\* was, whatever its argument, and stores only to bytes of the buffer it was
\* given, also when it panics.
C14_AlphaUnchanged ==
    applied >= 1 =>
        /\ DOMAIN pixels = DOMAIN original
        /\ \A x \in DOMAIN original : x % 4 = 3 => pixels[x] = original[x]
        /\ written \subseteq DOMAIN original

\* A transform changed both pixels of an image of two pixels whose first
\* alpha byte is not 255.
C14_Witness ==
    /\ op = "sepia_filter" /\ applied = 1 /\ LenOf(original) = 8
    /\ written = {0, 1, 2, 4, 5, 6}
    /\ original[3] = 128 /\ pixels[3] = 128
    /\ pixels[0] # original[0] /\ pixels[4] # original[4]

(***************************************************************************)
(* The statistics and the binary search (lib.rs 90-150, 202-227 and        *)
(* 305-323) on an array of f32.  Each returns its value with the indices   *)
(* it loaded from and stored to, and the array it left.                    *)
(***************************************************************************)
Indices(a) == 0..(LenOf(a) - 1)

Result(value, a, rd, wr) ==
    [value |-> value, arr |-> a, reads |-> rd, stores |-> wr,
     panicked |-> FALSE]

\* slice.iter().sum(): the sum from left to right of a[i..].
RECURSIVE SumFrom(_, _, _)
SumFrom(a, i, acc) ==
    IF i >= LenOf(a) THEN acc ELSE SumFrom(a, i + 1, Plus(acc, a[i]))

mean_f32(a) ==
    IF LenOf(a) = 0 THEN Result(Zero, a, {}, {})
    ELSE Result(DividedBy(SumFrom(a, 0, Zero), UsizeAsF32(LenOf(a))),
                a, Indices(a), {})

\* slice.iter().map(|&x| (x - mean).powi(2)).sum::<f32>()
RECURSIVE SquaresFrom(_, _, _, _)
SquaresFrom(a, mean, i, acc) ==
    IF i >= LenOf(a) THEN acc
    ELSE LET d == Minus(a[i], mean)
         IN  SquaresFrom(a, mean, i + 1, Plus(acc, Times(d, d)))

std_dev_f32(a) ==
    IF LenOf(a) = 0 THEN Result(Zero, a, {}, {})
    ELSE LET mean     == mean_f32(a).value
             variance == DividedBy(SquaresFrom(a, mean, 0, Zero),
                                   UsizeAsF32(LenOf(a)))
         IN  Result(Sqrt(variance), a, Indices(a), {})

Cmp(x, y) == LET c == partial_cmp(x, y) IN IF c = "None" THEN "Equal" ELSE c

\* Iterator::min_by keeps the earlier of two elements unless it is Greater.
RECURSIVE MinBy(_, _, _)
MinBy(a, i, best) ==
    IF i >= LenOf(a) THEN best
    ELSE MinBy(a, i + 1, IF Cmp(best, a[i]) = "Greater" THEN a[i] ELSE best)

\* Iterator::max_by keeps the earlier of two elements only if it is Greater.
RECURSIVE MaxBy(_, _, _)
MaxBy(a, i, best) ==
    IF i >= LenOf(a) THEN best
    ELSE MaxBy(a, i + 1, IF Cmp(best, a[i]) = "Greater" THEN best ELSE a[i])

min_f32_OrZero(a) ==
    IF LenOf(a) = 0 THEN Result(Zero, a, {}, {})
    ELSE Result(MinBy(a, 1, a[0]), a, Indices(a), {})

min_f32(a) ==
    IF LenOf(a) = 0 THEN Result(NaN, a, {}, {})
    ELSE Result(MinBy(a, 1, a[0]), a, Indices(a), {})

max_f32(a) ==
    IF LenOf(a) = 0 THEN Result(NaN, a, {}, {})
    ELSE Result(MaxBy(a, 1, a[0]), a, Indices(a), {})

\* slice.sort_by(..): the standard library's stable sort, an insertion sort
\* on a slice this short.
RECURSIVE InsertBy(_, _, _)
InsertBy(a, j, val) ==
    IF j > 0 /\ Cmp(a[j - 1], val) = "Greater"
    THEN InsertBy([a EXCEPT ![j] = a[j - 1]], j - 1, val)
    ELSE [a EXCEPT ![j] = val]

RECURSIVE SortBy(_, _)
SortBy(a, i) ==
    IF i >= LenOf(a) THEN a ELSE SortBy(InsertBy(a, i, a[i]), i + 1)

Two == UsizeAsF32(2)

median_f32(a) ==
    LET len == LenOf(a)
    IN  IF len = 0 THEN Result(NaN, a, {}, {})
        ELSE LET slice == SortBy(a, 1)
                 value == IF len % 2 = 0
                          THEN DividedBy(Plus(slice[(len \div 2) - 1],
                                              slice[len \div 2]), Two)
                          ELSE slice[len \div 2]
                 \* the sort stores where it moves an element
             wr    == {i \in Indices(a) : slice[i] # a[i]}
             IN  Result(value, slice, Indices(a), wr)

\* for val in slice.iter_mut() { *val = (*val - min) / range }
RECURSIVE NormalizeLoop(_, _, _, _)
NormalizeLoop(a, i, min, range) ==
    IF i >= LenOf(a) THEN a
    ELSE NormalizeLoop([a EXCEPT ![i] = DividedBy(Minus(a[i], min), range)],
                       i + 1, min, range)

\* normalize_array returns no value: Zero stands for it.
normalize_array(a) ==
    IF LenOf(a) = 0 THEN Result(Zero, a, {}, {})
    ELSE LET min   == MinBy(a, 1, a[0])
             max   == MaxBy(a, 1, a[0])
             range == Minus(max, min)
         IN  IF range = Zero THEN Result(Zero, a, Indices(a), {})
             ELSE Result(Zero, NormalizeLoop(a, 0, min, range), Indices(a),
                         Indices(a))

\* while left < right { ... }: the value returned and the indices loaded.
\* slice[mid] panics when mid is no index of the slice.
RECURSIVE SearchLoop_SkipMid(_, _, _, _, _)
SearchLoop_SkipMid(a, tgt, left, right, rd) ==
    IF left >= right THEN Result(-1, a, rd, {})
    ELSE LET mid == left + ((right - left) \div 2)
             c   == IF mid \in Indices(a) THEN partial_cmp(a[mid], tgt)
                    ELSE "panic"
         IN  CASE c = "panic" -> [Result(-1, a, rd, {}) EXCEPT !.panicked = TRUE]
               [] c = "Equal" -> Result(mid, a, rd \cup {mid}, {})
               [] c = "Less" ->
                      SearchLoop_SkipMid(a, tgt, mid + 1, right, rd \cup {mid})
               [] c = "Greater" ->
                      SearchLoop_SkipMid(a, tgt, left, mid - 1, rd \cup {mid})
               [] c = "None" -> Result(-1, a, rd \cup {mid}, {})

RECURSIVE SearchLoop(_, _, _, _, _)
SearchLoop(a, tgt, left, right, rd) ==
    IF left >= right THEN Result(-1, a, rd, {})
    ELSE LET mid == left + ((right - left) \div 2)
             c   == IF mid \in Indices(a) THEN partial_cmp(a[mid], tgt)
                    ELSE "panic"
         IN  CASE c = "panic" -> [Result(-1, a, rd, {}) EXCEPT !.panicked = TRUE]
               [] c = "Equal" -> Result(mid, a, rd \cup {mid}, {})
               [] c = "Less" -> SearchLoop(a, tgt, mid + 1, right, rd \cup {mid})
               [] c = "Greater" -> SearchLoop(a, tgt, left, mid, rd \cup {mid})
               [] c = "None" -> Result(-1, a, rd \cup {mid}, {})

binary_search_f32(a, tgt) == SearchLoop(a, tgt, 0, LenOf(a), {})

(***************************************************************************)
(* The statistics and the search as operations on an array the host wrote. *)
(***************************************************************************)
\* The f32 values of the arrays: -2.5 and the values of test_binary_search.
StatValues ==
    { Literal(-5, 2), Literal(1, 1), Literal(3, 1), Literal(5, 1),
      Literal(7, 1), Literal(9, 1) }

\* The targets searched: the values, 4.0 and NaN.
Targets == StatValues \cup {Literal(4, 1), NaN}

NonDecreasing(a) ==
    \A i, j \in Indices(a) :
        i < j => partial_cmp(a[i], a[j]) \in {"Less", "Equal"}

InitStatVars ==
    /\ data \in UNION { [0..(n - 1) -> StatValues] : n \in 0..MaxSearchLen }
    /\ IF LenOf(data) <= MaxStatLen THEN TRUE ELSE NonDecreasing(data)
    /\ target = Zero
    /\ stat = "none"
    /\ ret = Zero
    /\ reads = {}
    /\ stores = {}
    /\ spc = "ready"

\* The entry point name was called and did r.
StatCall(name, r) ==
    /\ spc = "ready"
    /\ stat' = name
    /\ data' = r.arr
    /\ ret' = r.value
    /\ reads' = r.reads
    /\ stores' = r.stores
    /\ spc' = IF r.panicked THEN "panic" ELSE "done"
    /\ UNCHANGED <<sortVars, matVars, arenaVars, imgVars, pixVars, jsonVars>>

MeanF32 == StatCall("mean_f32", mean_f32(data)) /\ UNCHANGED target

StdDevF32 == StatCall("std_dev_f32", std_dev_f32(data)) /\ UNCHANGED target

MinF32 == StatCall("min_f32", min_f32(data)) /\ UNCHANGED target

MaxF32 == StatCall("max_f32", max_f32(data)) /\ UNCHANGED target

MedianF32 == StatCall("median_f32", median_f32(data)) /\ UNCHANGED target

NormalizeArray ==
    StatCall("normalize_array", normalize_array(data)) /\ UNCHANGED target

BinarySearchF32 ==
    \E tgt \in Targets :
        /\ StatCall("binary_search_f32", binary_search_f32(data, tgt))
        /\ target' = tgt

InitStat == InitStatVars /\ IdleButStat

NextStat ==
    \/ MeanF32
    \/ StdDevF32
    \/ MinF32
    \/ MaxF32
    \/ MedianF32
    \/ NormalizeArray
    \/ BinarySearchF32

SpecStat == InitStat /\ [][NextStat]_vars

\* The array of test_binary_search.
TestData ==
    (0 :> Literal(1, 1)) @@ (1 :> Literal(3, 1)) @@ (2 :> Literal(5, 1))
        @@ (3 :> Literal(7, 1)) @@ (4 :> Literal(9, 1))

\* C13: on a non-decreasing array binary_search_f32 returns, having loaded
\* only from indices of the array, an index that holds the target if the
\* target occurs and -1 if it does not; on [1,3,5,7,9] it returns 2 for the
\* target 5 and -1 for the target 4.
C13_BinarySearch ==
    (stat = "binary_search_f32" /\ NonDecreasing(data)) =>
        /\ spc = "done"
        /\ reads \subseteq Indices(data)
        /\ IF \E i \in Indices(data) : partial_cmp(data[i], target) = "Equal"
           THEN ret \in Indices(data)
                /\ partial_cmp(data[ret], target) = "Equal"
           ELSE ret = -1
        /\ (data = TestData /\ target = Literal(5, 1)) => ret = 2
        /\ (data = TestData /\ target = Literal(4, 1)) => ret = -1

\* The search found 5 in the array of the test at its first probe.
C13_Witness ==
    /\ stat = "binary_search_f32" /\ spc = "done" /\ data = TestData
    /\ target = Literal(5, 1) /\ ret = 2 /\ reads = {2}

\* C16: called on an empty array, mean_f32 and std_dev_f32 return 0.0,
\* min_f32, max_f32 and median_f32 return NaN, binary_search_f32 returns -1
\* and normalize_array returns; none loads, stores or fails.
C16_EmptyInput ==
    (stat # "none" /\ LenOf(data) = 0) =>
        /\ spc = "done"
        /\ reads = {}
        /\ stores = {}
        /\ stat \in {"mean_f32", "std_dev_f32"} => ret = Zero
        /\ stat \in {"min_f32", "max_f32", "median_f32"} => ret = NaN
        /\ stat = "binary_search_f32" => ret = -1

\* min_f32 returned NaN for the empty array.
C16_Witness ==
    /\ stat = "min_f32" /\ spc = "done" /\ LenOf(data) = 0 /\ ret = NaN

(***************************************************************************)
(* The Sobel edge detector (image.rs 123-166).                             *)
(***************************************************************************)
\* The Sobel kernels, indexed from 1.
gx == <<-1, 0, 1, -2, 0, 2, -1, 0, 1>>
gy == <<-1, -2, -1, 0, 0, 0, 1, 2, 1>>

\* for ky in 0..3 { for kx in 0..3 { ... } }, over kernel_idx = ky * 3 + kx:
\* gx_sum and gy_sum.  The sums stay far inside the i32 range.
RECURSIVE KernelLoop(_, _, _, _, _, _)
KernelLoop(s, w, x, y, kernel_idx, sums) ==
    IF kernel_idx >= 9 THEN sums
    ELSE LET kx    == kernel_idx % 3
             ky    == kernel_idx \div 3
             px    == x + kx - 1
             py    == y + ky - 1
             idx   == (py * w + px) * 4
             pixel == s[idx]
         IN  KernelLoop(s, w, x, y, kernel_idx + 1,
                        [gx |-> sums.gx + pixel * gx[kernel_idx + 1],
                         gy |-> sums.gy + pixel * gy[kernel_idx + 1]])

\* ((gx_sum * gx_sum + gy_sum * gy_sum) as f32).sqrt() as u8.  The sum of the
\* squares is below 2^24, so the cast to f32 is exact.
Magnitude(sums) ==
    F32AsU8(F32Sqrt(Normalize(sums.gx * sums.gx + sums.gy * sums.gy, 0)))

\* The four stores for the pixel (x, y).
SobelPixel_KeepAlpha(s, d, w, x, y) ==
    LET magnitude == Magnitude(KernelLoop(s, w, x, y, 0, [gx |-> 0, gy |-> 0]))
        idx       == (y * w + x) * 4
    IN  [d EXCEPT ![idx] = magnitude, ![idx + 1] = magnitude,
                  ![idx + 2] = magnitude]

SobelPixel(s, d, w, x, y) ==
    LET magnitude == Magnitude(KernelLoop(s, w, x, y, 0, [gx |-> 0, gy |-> 0]))
        idx       == (y * w + x) * 4
    IN  [d EXCEPT ![idx] = magnitude, ![idx + 1] = magnitude,
                  ![idx + 2] = magnitude, ![idx + 3] = 255]

\* for y in 1..(height - 1) { for x in 1..(width - 1) { ... } }, for width
\* and height of at least 1.
RECURSIVE SobelLoop(_, _, _, _, _, _)
SobelLoop(s, d, w, h, x, y) ==
    IF y >= h - 1 THEN d
    ELSE IF x >= w - 1 THEN SobelLoop(s, d, w, h, 1, y + 1)
    ELSE SobelLoop(s, SobelPixel(s, d, w, x, y), w, h, x + 1, y)

\* height - 1 and width - 1 are usize subtractions.  With height = 0 the
\* first one panics under overflow checks and wraps to usize::MAX without
\* them; the rows 1..usize::MAX are then empty for width 1 and 2 and read
\* src[0] of the empty source, a panic, for every other width.  With
\* width = 0 and a row to scan (height >= 3) the second one does the same.
sobel_edge_detect(s, d, w, h, bld) ==
    IF h = 0
    THEN [dst |-> d,
          panicked |-> bld = "debug" \/ w = 0 \/ w >= 3]
    ELSE IF w = 0
    THEN [dst |-> d, panicked |-> h >= 3]
    ELSE [dst |-> SobelLoop(s, d, w, h, 1, 1), panicked |-> FALSE]

\* The red bytes of the source pixels that are not 0.
LitReds == {40, 255}

\* The sources of n pixels: at most MaxLit pixels have a red byte that is
\* not 0; the other bytes, which the code does not read, are 9.
SobelSources(n) ==
    UNION { { [i \in 0..(4 * n - 1) |->
                 IF i % 4 # 0 THEN 9
                 ELSE IF (i \div 4) \in lit THEN f[i \div 4] ELSE 0] :
              f \in [lit -> LitReds] } :
            lit \in { q \in SUBSET (0..(n - 1)) : Cardinality(q) <= MaxLit } }

\* The byte every position of the destination holds before the call.
Stale == 7

InitSobelVars ==
    /\ ipc = "ready"
    /\ width \in 0..MaxSobelSide
    /\ height \in 0..MaxSobelSide
    /\ radius = 0
    /\ src \in SobelSources(width * height)
    /\ dst = [i \in 0..(4 * width * height - 1) |-> Stale]

SobelEdgeDetect ==
    /\ ipc = "ready"
    /\ \E bld \in {"debug", "release"} :
         LET r == sobel_edge_detect(src, dst, width, height, bld)
         IN  /\ dst' = r.dst
             /\ ipc' = IF r.panicked THEN "panic" ELSE "done"
    /\ UNCHANGED <<width, height, radius, src, sortVars, matVars, arenaVars,
                   pixVars, statVars, jsonVars>>

InitSobel == InitSobelVars /\ IdleButImg

NextSobel == SobelEdgeDetect

SpecSobel == InitSobel /\ [][NextSobel]_vars

\* The red byte of the source pixel (x, y).
Red(x, y) == src[(y * width + x) * 4]

\* The horizontal and the vertical gradient at the interior pixel (x, y).
GradientX(x, y) ==
    (Red(x + 1, y - 1) + 2 * Red(x + 1, y) + Red(x + 1, y + 1))
        - (Red(x - 1, y - 1) + 2 * Red(x - 1, y) + Red(x - 1, y + 1))

GradientY(x, y) ==
    (Red(x - 1, y + 1) + 2 * Red(x, y + 1) + Red(x + 1, y + 1))
        - (Red(x - 1, y - 1) + 2 * Red(x, y - 1) + Red(x + 1, y - 1))

\* t is the square root of n, rounded down and saturated at 255.
IsMagnitude(t, n) ==
    /\ t \in 0..255
    /\ t * t <= n
    /\ t < 255 => n < (t + 1) * (t + 1)

\* C15: after sobel_edge_detect every byte of a border pixel of the
\* destination is as before the call, and every interior pixel has
\* R = G = B = the gradient magnitude of the source's red channel and
\* alpha = 255.
C15_SobelBorder ==
    ipc \in {"done", "panic"} =>
        \A x \in 0..(width - 1), y \in 0..(height - 1) :
            LET idx == (y * width + x) * 4
            IN  IF x = 0 \/ x = width - 1 \/ y = 0 \/ y = height - 1
                THEN \A c \in 0..3 : dst[idx + c] = Stale
                ELSE /\ IsMagnitude(dst[idx],
                                    GradientX(x, y) * GradientX(x, y)
                                        + GradientY(x, y) * GradientY(x, y))
                     /\ dst[idx + 1] = dst[idx]
                     /\ dst[idx + 2] = dst[idx]
                     /\ dst[idx + 3] = 255

\* A 3 x 3 source with the red byte 40 in one corner: the interior pixel has
\* the gradient (-40, -40) and the magnitude 56.
C15_Witness ==
    /\ ipc = "done" /\ width = 3 /\ height = 3
    /\ src[0] = 40 /\ \A q \in 1..8 : src[4 * q] = 0
    /\ dst[16] = 56 /\ dst[19] = 255 /\ dst[0] = Stale

\* C22: on every image with width < 3 or height < 3, width = 0 and
\* height = 0 included, sobel_edge_detect returns without a panic and leaves
\* every byte of the destination as it was.
C22_SmallImageSafe ==
    (ipc \in {"done", "panic"} /\ (width < 3 \/ height < 3)) =>
        /\ ipc = "done"
        /\ \A i \in DOMAIN dst : dst[i] = Stale

(***************************************************************************)
(* The JSON validator (json.rs 12-14 and 231-270).  A text is the sequence *)
(* of its characters.                                                      *)
(***************************************************************************)
\* The characters of the texts: the six the parser tells apart, a letter and
\* a space.
Chars == {"{", "}", "[", "]", "\"", "\\", "a", " "}

\* json.trim()
RECURSIVE trim_start(_)
trim_start(t) ==
    IF t # <<>> /\ Head(t) = " " THEN trim_start(Tail(t)) ELSE t

RECURSIVE trim_end(_)
trim_end(t) ==
    IF t # <<>> /\ t[Len(t)] = " "
    THEN trim_end(SubSeq(t, 1, Len(t) - 1))
    ELSE t

trim(t) == trim_end(trim_start(t))

\* stack.pop() != Some(open)
PopIsNot(stack, open) == stack = <<>> \/ stack[Len(stack)] # open

Pop(stack) == SubSeq(stack, 1, Len(stack) - 1)

\* for ch in json.trim().chars() { ... } and the two checks after it: TRUE for
\* Ok(()), FALSE for Err(..).
RECURSIVE ParseLoop(_, _, _, _, _)
ParseLoop(t, i, stack, in_string, escape_next) ==
    IF i > Len(t) THEN stack = <<>> /\ ~in_string
    ELSE IF escape_next THEN ParseLoop(t, i + 1, stack, in_string, FALSE)
    ELSE LET ch == t[i]
         IN  CASE ch = "\\" -> ParseLoop(t, i + 1, stack, in_string, TRUE)
               [] ch = "\"" -> ParseLoop(t, i + 1, stack, ~in_string, FALSE)
               [] ch = "{" /\ ~in_string ->
                      ParseLoop(t, i + 1, Append(stack, "{"), in_string, FALSE)
               [] ch = "[" /\ ~in_string ->
                      ParseLoop(t, i + 1, Append(stack, "["), in_string, FALSE)
               [] ch = "}" /\ ~in_string ->
                      IF PopIsNot(stack, "{") THEN FALSE
                      ELSE ParseLoop(t, i + 1, Pop(stack), in_string, FALSE)
               [] ch = "]" /\ ~in_string ->
                      IF PopIsNot(stack, "[") THEN FALSE
                      ELSE ParseLoop(t, i + 1, Pop(stack), in_string, FALSE)
               [] OTHER -> ParseLoop(t, i + 1, stack, in_string, FALSE)

parse_json(t) == ParseLoop(trim(t), 1, <<>>, FALSE, FALSE)

is_valid_json(t) == parse_json(t)

\* The texts of test_is_valid_json.
TestTexts ==
    { <<"{", "\"", "a", "\"", "a", " ", "\"", "a", "\"", "}">>,
      <<"[", "a", "a", " ", "a", "a", " ", "a", "]">>,
      <<"{", "\"", "a", "\"", "a", " ", "\"", "a", "\"">> }

InitJsonVars ==
    /\ json \in UNION { [1..n -> Chars] : n \in 0..MaxText } \cup TestTexts
    /\ valid = FALSE
    /\ jpc = "ready"

IsValidJson ==
    /\ jpc = "ready"
    /\ valid' = is_valid_json(json)
    /\ jpc' = "done"
    /\ UNCHANGED <<json, sortVars, matVars, arenaVars, imgVars, pixVars,
                   statVars>>

InitJson == InitJsonVars /\ IdleButJson

NextJson == IsValidJson

SpecJson == InitJson /\ [][NextJson]_vars

\* Scanning t from the character i on, with the brackets open outside string
\* literals and inside a string literal or not: every bracket outside a
\* string literal is matched in nested order and no string literal is left
\* open.  A string literal runs from a quote to the next quote that no
\* backslash of the literal escapes.
RECURSIVE Balanced(_, _, _, _)
Balanced(t, i, open, literal) ==
    IF i > Len(t) THEN open = <<>> /\ ~literal
    ELSE IF literal
    THEN IF t[i] = "\\" THEN Balanced(t, i + 2, open, TRUE)
         ELSE Balanced(t, i + 1, open, t[i] # "\"")
    ELSE CASE t[i] = "\"" -> Balanced(t, i + 1, open, TRUE)
           [] t[i] \in {"{", "["} -> Balanced(t, i + 1, <<t[i]>> \o open, FALSE)
           [] t[i] = "}" -> open # <<>> /\ Head(open) = "{"
                               /\ Balanced(t, i + 1, Tail(open), FALSE)
           [] t[i] = "]" -> open # <<>> /\ Head(open) = "["
                               /\ Balanced(t, i + 1, Tail(open), FALSE)
           [] OTHER -> Balanced(t, i + 1, open, FALSE)

\* C17: is_valid_json returns true exactly for the texts whose brackets
\* outside string literals are balanced and whose string literals are all
\* closed.
C17_ExactlyBalanced == jpc = "done" => (valid <=> Balanced(json, 1, <<>>, FALSE))

(***************************************************************************)
(* Further properties of the sorting routines.                             *)
(***************************************************************************)
\* The number of the positions lo..hi of a that hold the key v.
CountIn(a, lo, hi, v) == Cardinality({i \in lo..hi : a[i].key = v})

\* The first k positions of a are in non-decreasing order and hold the k
\* smallest keys of the first seen positions of the input.
IsWindow(a, k, seen) ==
    /\ \A i, j \in 0..(k - 1) : i < j => a[i].key <= a[j].key
    /\ \A v \in Keys(input) :
          /\ CountIn(a, 0, k - 1, v) <= CountIn(input, 0, seen - 1, v)
          /\ v < a[k - 1].key =>
                CountIn(a, 0, k - 1, v) = CountIn(input, 0, seen - 1, v)

InRadixRange(a) == \A i \in DOMAIN a : Abs(a[i].key) < 1000000000

\* C19: on an array of i32 values of absolute value below 10^9
\* radixsort_i32 leaves the array in non-decreasing order of |x|, elements
\* of equal |x| in their input order; so it leaves [-1, -2] as it is, out of
\* signed order.
C19_AbsoluteOrder ==
    (algo = "radixsort_i32" /\ InRadixRange(input)) =>
        /\ pc = "done"
        /\ \A i, j \in DOMAIN arr :
              i < j =>
                  \/ Abs(arr[i].key) < Abs(arr[j].key)
                  \/ Abs(arr[i].key) = Abs(arr[j].key) /\ arr[i].tag < arr[j].tag
        /\ (LenOf(input) = 2 /\ input[0].key = -1 /\ input[1].key = -2) =>
              (arr = input /\ ~Sorted(arr))

\* radixsort_i32 returned [21, -21, -2] as [-2, 21, -21].
C19_Witness ==
    /\ algo = "radixsort_i32" /\ pc = "done" /\ LenOf(input) = 3
    /\ input[0].key = 21 /\ input[1].key = -21 /\ input[2].key = -2
    /\ arr[0].key = -2 /\ arr[1].key = 21 /\ arr[2].key = -21

\* The least c with 2^c >= n, for n >= 1.
RECURSIVE CeilLog2From(_, _)
CeilLog2From(n, c) == IF Pow2(c) >= n THEN c ELSE CeilLog2From(n, c + 1)

CeilLog2(n) == CeilLog2From(n, 0)

\* C20 as stated: on an input of n >= 1 elements the nested active calls of
\* quicksort_recursive, of mergesort_recursive and of heapify never exceed
\* ceil(log2(n)) + 1.
C20_LogDepth ==
    (pc = "done" /\ algo \in FullSorts /\ LenOf(input) >= 1) =>
        depth <= CeilLog2(LenOf(input)) + 1

\* C20 amended: the nested active calls of mergesort_recursive and of
\* heapify never exceed ceil(log2(n)) + 1; those of quicksort_recursive
\* never exceed n, and reach n on an input already in order.
C20_DepthBounds ==
    (pc = "done" /\ LenOf(input) >= 1) =>
        /\ algo \in {"mergesort_f32", "heapsort_f32"} =>
              depth <= CeilLog2(LenOf(input)) + 1
        /\ algo = "quicksort_f32" =>
              /\ depth <= LenOf(input)
              /\ Sorted(input) => depth = LenOf(input)

\* quicksort_f32 nested four calls on an input of four elements in order,
\* one more than ceil(log2(4)) + 1.
C20_Witness ==
    /\ pc = "done" /\ algo = "quicksort_f32" /\ LenOf(input) = 4
    /\ Sorted(input) /\ depth = 4

====
